---- MODULE Spec2Model ----
(***************************************************************************)
(* Verification model of rustman-cli-tools: the numeric utilities          *)
(* (src/src/utils.rs), the dataset and pipeline (src/src/common.rs), the   *)
(* transformer contract (src/src/transformations.rs) and the transformers  *)
(* (src/src/transformations/*.rs).                                         *)
(*                                                                         *)
(* f64 values are modelled as exact rationals <<n, d>> with d > 0 in       *)
(* lowest terms, extended by the IEEE specials NaN = <<0,0>>,              *)
(* +inf = <<1,0>> and -inf = <<-1,0>>.  Rounding is not modelled.          *)
(***************************************************************************)
EXTENDS Integers, Sequences, FiniteSets, TLC

VARIABLES pc, build, call, ret, dataset, pipeline, step, fs, app, chan, thread

vars == <<pc, build, call, ret, dataset, pipeline, step, fs, app, chan, thread>>

\* the state of the interactive mode and of the threads the program spawns:
\* the fields of RamanGuiApp, the messages in flight on the channels, and
\* the position and the locals of the spawned thread
gui == <<app, chan, thread>>

\* a run without window and without spawned thread
Batch ==
    /\ app = << >>
    /\ chan = << >>
    /\ thread = << >>

\* the state of a run of the program: the dataset, the pipeline and the
\* index of its next transformer, and the files
run == <<dataset, pipeline, step, fs>>

\* ------------------------------------------------------------------ f64

Abs(n) == IF n < 0 THEN -n ELSE n

Sgn(n) == IF n < 0 THEN -1 ELSE IF n > 0 THEN 1 ELSE 0

Min(a, b) == IF a < b THEN a ELSE b

Max(a, b) == IF a < b THEN b ELSE a

RECURSIVE GCD(_, _)
GCD(a, b) == IF b = 0 THEN a ELSE GCD(b, a % b)

Norm(n, d) ==
    IF d = 0 THEN <<Sgn(n), 0>>
    ELSE LET g == GCD(Abs(n), Abs(d))
             s == Sgn(d)
         IN  <<(s * n) \div g, (s * d) \div g>>

NaN == <<0, 0>>

Inf == <<1, 0>>

F(n) == <<n, 1>>

IsNaN(a) == a = NaN

IsFinite(a) == a[2] # 0

FNeg(a) == <<-a[1], a[2]>>

FAdd(a, b) ==
    IF IsNaN(a) \/ IsNaN(b) THEN NaN
    ELSE IF a[2] = 0 /\ b[2] = 0 THEN (IF a = b THEN a ELSE NaN)
    ELSE IF a[2] = 0 THEN a
    ELSE IF b[2] = 0 THEN b
    ELSE Norm(a[1] * b[2] + b[1] * a[2], a[2] * b[2])

FSub(a, b) == FAdd(a, FNeg(b))

FMul(a, b) == Norm(a[1] * b[1], a[2] * b[2])

FRecip(a) == IF a[1] < 0 THEN Norm(-a[2], -a[1]) ELSE Norm(a[2], a[1])

FDiv(a, b) == FMul(a, FRecip(b))

FAbs(a) == <<Abs(a[1]), a[2]>>

FEq(a, b) == ~IsNaN(a) /\ ~IsNaN(b) /\ a = b

FLt(a, b) ==
    /\ ~IsNaN(a)
    /\ ~IsNaN(b)
    /\ IF a[2] = 0 /\ b[2] = 0 THEN a[1] < b[1]
       ELSE a[1] * b[2] < b[1] * a[2]

FLe(a, b) == FLt(a, b) \/ FEq(a, b)

FGe(a, b) == FLe(b, a)

FGt(a, b) == FLt(b, a)

Half == <<1, 2>>

\* ------------------------------------------------------------ results

Ok(v) == [kind |-> "Ok", val |-> v, msg |-> ""]

Err(m) == [kind |-> "Err", val |-> NaN, msg |-> m]

Panic(m) == [kind |-> "Panic", val |-> NaN, msg |-> m]

\* 0-based indexing of a Rust slice held as a TLA+ sequence
At(s, i) == s[i + 1]

\* A usize is held by its representative in -1 .. 2^63: -1 stands for
\* usize::MAX, the value 0usize - 1 wraps to in a release build.
UsizeDec(len) == len - 1

ULt(a, b) == IF a < 0 THEN (b < 0 /\ a < b) ELSE (b < 0 \/ a < b)

\* The arithmetic on frame numbers is done in usize.  The width of usize is
\* scaled down to UsizeBits bits: a value outside 0 .. 2^UsizeBits - 1 is an
\* overflow, on which a debug build panics and a release build wraps.
UsizeBits == 5

UsizeModulus == 2 ^ UsizeBits

usize(v, overflow) ==
    IF v \in 0..UsizeModulus - 1 THEN Ok(v)
    ELSE IF build = "debug" THEN Panic(overflow)
    ELSE Ok(v % UsizeModulus)

SeqToSet(s) == {s[i] : i \in 1..Len(s)}

\* ------------------------------------------------------------ utils.rs

singletrapz(x0, x1, y0, y1) == FMul(FMul(Half, FAbs(FSub(x1, x0))), FAdd(y1, y0))

lininterp(x, x0, x1, y0, y1) ==
    LET dx == FSub(x1, x0)
    IN  FDiv(FAdd(FMul(y1, FSub(x, x0)), FMul(y0, FSub(x1, x))), dx)

\* segments of linear_resample_array: zip of (xs, ys) with (xs, ys) skipped by one
Segments(xs, ys) ==
    [i \in 1..Max(0, Min(Len(xs), Len(ys)) - 1) |->
        <<xs[i], ys[i], xs[i + 1], ys[i + 1]>>]

resample_one(segments, xi) ==
    LET hits == {i \in 1..Len(segments) :
                    FGe(xi, segments[i][1]) /\ FLt(xi, segments[i][3])}
    IN  IF hits # {}
        THEN LET s == segments[CHOOSE i \in hits : \A k \in hits : i <= k]
             IN  lininterp(xi, s[1], s[3], s[2], s[4])
        ELSE IF Len(segments) > 0 /\ FEq(xi, segments[Len(segments)][3])
        THEN segments[Len(segments)][4]
        ELSE NaN

linear_resample_array(xs, ys, grid) ==
    [k \in 1..Len(grid) |-> resample_one(Segments(xs, ys), grid[k])]

\* the while loop of trapz, from index j on
RECURSIVE trapz_loop(_, _, _, _, _, _, _, _)
trapz_loop(x, y, n, left, right, j, area, inside) ==
    IF ~(j <= n) THEN area
    ELSE LET x0 == At(x, j - 1)
             x1 == At(x, j)
             y0 == At(y, j - 1)
             y1 == At(y, j)
         IN  IF FLe(x1, left)
             THEN trapz_loop(x, y, n, left, right, j + 1, area, inside)
             ELSE LET enter == ~inside
                      cut == enter /\ FLt(x0, left)
                      y0a == IF cut THEN lininterp(left, x0, x1, y0, y1) ELSE y0
                      x0a == IF cut THEN left ELSE x0
                      left2 == IF enter /\ ~cut THEN x0 ELSE left
                      lastiter == FGe(x1, right)
                      y1a == IF lastiter /\ ~FEq(x1, right)
                             THEN lininterp(right, x0a, x1, y0a, y1) ELSE y1
                      x1a == IF lastiter THEN right ELSE x1
                      area2 == FAdd(area, singletrapz(x0a, x1a, y0a, y1a))
                  IN  IF lastiter THEN area2
                      ELSE trapz_loop(x, y, n, left2, right, j + 1, area2, TRUE)

FirstIndex == 2

trapz_checked(x, y, left, right, local_baseline) ==
    LET n == UsizeDec(Len(x))
        ys == linear_resample_array(x, y, <<left, right>>)
    IN  IF local_baseline /\ \E k \in 1..2 : IsNaN(ys[k])
        THEN Err("Integration window out of bounds.")
        ELSE Ok(trapz_loop(x, y, n, left, right, FirstIndex,
                           IF local_baseline
                           THEN FNeg(singletrapz(left, right, ys[1], ys[2]))
                           ELSE F(0),
                           FALSE))

trapz(x, y, left0, right0, local_baseline) ==
    LET left == IF FLt(left0, right0) THEN left0 ELSE right0
        right == IF FLt(left0, right0) THEN right0 ELSE left0
        n == UsizeDec(Len(x))
    IN  IF build = "debug" /\ (Len(x) = 0 \/ Len(y) = 0)
        THEN Panic("attempt to subtract with overflow")
        ELSE IF n # UsizeDec(Len(y))
        THEN Err("x and y must have the same length!")
        ELSE IF ULt(n, 1)
        THEN Err("x and y must contain more than 2 elements!")
        ELSE IF Len(x) = 0
        THEN Panic("index out of bounds")
        ELSE IF FGe(At(x, 0), right) \/ FLe(At(x, n), left)
        THEN Err("Integration window out of bounds.")
        ELSE trapz_checked(x, y, left, right, local_baseline)

\* Iterator::min_by keeps the earlier element unless compare says Greater;
\* the comparison is partial_cmp(..).unwrap_or(Greater)
RECURSIVE min_by_fold(_, _, _)
min_by_fold(d, acc, k) ==
    IF k > Len(d) THEN acc
    ELSE LET greater == IsNaN(d[acc]) \/ IsNaN(d[k]) \/ FGt(d[acc], d[k])
         IN  min_by_fold(d, IF greater THEN k ELSE acc, k + 1)

None == [some |-> FALSE, idx |-> 0]

Some(i) == [some |-> TRUE, idx |-> i]

\* the returned index is 0-based
nearest_index(x, xi) ==
    LET d == [i \in 1..Len(x) |-> FAbs(FSub(x[i], xi))]
    IN  IF Len(x) = 0 THEN None ELSE Some(min_by_fold(d, 1, 2) - 1)

\* ------------------------------------------------------------------ text
\* A String is a sequence of atoms.  "#", " ", "-", "'" and "\n" are single
\* characters; every other atom is a run of characters that holds none of
\* them (a key with its colon, a name, a numeral, a word).

NL == "\n"

StartsWith(t, p) == Len(t) >= Len(p) /\ SubSeq(t, 1, Len(p)) = p

\* str::contains
Contains(t, p) == \E i \in 0..Len(t) - Len(p) : SubSeq(t, i + 1, i + Len(p)) = p

\* the elements of a set of numbers in increasing order
Sorted(S) ==
    LET max == IF S = {} THEN 0 ELSE CHOOSE i \in S : \A j \in S : j <= i
        min == IF S = {} THEN 1 ELSE CHOOSE i \in S : \A j \in S : i <= j
    IN  SelectSeq([i \in 1..max - min + 1 |-> i + min - 1], LAMBDA i : i \in S)

\* the starts of the non-overlapping matches of p in t, found left to right
RECURSIVE Greedy(_, _, _, _)
Greedy(cands, k, from, width) ==
    IF k > Len(cands) THEN << >>
    ELSE IF cands[k] < from THEN Greedy(cands, k + 1, from, width)
    ELSE <<cands[k]>> \o Greedy(cands, k + 1, cands[k] + width, width)

Matches(t, p) ==
    Greedy(SelectSeq([i \in 1..Max(0, Len(t) - Len(p) + 1) |-> i],
                     LAMBDA i : SubSeq(t, i, i + Len(p) - 1) = p),
           1, 1, Len(p))

\* the pieces of t between the matches m of a pattern of the given width
Pieces(t, m, width) ==
    SubSeq([k \in 1..Len(m) + 1 |->
               SubSeq(t, IF k = 1 THEN 1 ELSE m[k - 1] + width,
                         IF k = Len(m) + 1 THEN Len(t) ELSE m[k] - 1)],
           1, Len(m) + 1)

\* str::split: the pieces between the non-overlapping matches of p
Split(t, p) == Pieces(t, Matches(t, p), Len(p))

RECURSIVE ConcatRange(_, _, _)
ConcatRange(ss, lo, hi) ==
    IF lo > hi THEN << >>
    ELSE IF lo = hi THEN ss[lo]
    ELSE ConcatRange(ss, lo, (lo + hi) \div 2) \o ConcatRange(ss, (lo + hi) \div 2 + 1, hi)

Concat(ss) == ConcatRange(ss, 1, Len(ss))

\* the pieces with r between them
Join(pieces, r) ==
    Concat([k \in 1..Len(pieces) |-> IF k = 1 THEN pieces[k] ELSE r \o pieces[k]])

\* str::replace: every non-overlapping match, left to right
Replace(t, p, r) == Join(Split(t, p), r)

\* a final empty piece is no line
WithoutFinalEmpty(pieces) ==
    IF pieces[Len(pieces)] = << >> THEN SubSeq(pieces, 1, Len(pieces) - 1) ELSE pieces

\* str::lines: split at "\n"
Lines(t) == WithoutFinalEmpty(Split(t, <<NL>>))

IsSpace(a) == a = " " \/ a = NL

\* t from the first to the last of the positions keep
Between(t, keep) ==
    IF keep = {} THEN << >>
    ELSE SubSeq(t, CHOOSE i \in keep : \A k \in keep : i <= k,
                   CHOOSE i \in keep : \A k \in keep : k <= i)

\* str::trim
Trim(t) == Between(t, {i \in 1..Len(t) : ~IsSpace(t[i])})

\* every line with the prefix before it and "\n" after it
PrefixEach(lines, prefix) ==
    Concat([i \in 1..Len(lines) |-> prefix \o lines[i] \o <<NL>>])

\* lines.map(|line| format!("{}{}\n", prefix, line)).collect()
PrefixLines(t, prefix) == PrefixEach(Lines(t), prefix)

DELIMITER == <<"-", "-", "-">>

COMMENT_PREFIX == <<"#", " ">>

TAG == <<"transformation:", " ">>

\* ------------------------------------------------------------ serde_yaml
\* Values of the fields of the transformer structs, tagged by their type.

U(n) == [t |-> "usize", v |-> <<n>>]

Fl(x) == [t |-> "f64", v |-> x]

B(b) == [t |-> "bool", v |-> <<b>>]

Null == [t |-> "null", v |-> << >>]

Str(text) == [t |-> "str", v |-> text]

List(items) == [t |-> "list", v |-> items]

Pair(a, b) == [t |-> "pair", v |-> <<a, b>>]

\* a finite f64 is written with its decimal point; the values of the model
\* have denominator 1 or 2
UnsignedText(x) ==
    IF x[2] = 1 THEN <<ToString(x[1]) \o ".0">> ELSE <<ToString(x[1] \div 2) \o ".5">>

FloatText(x) ==
    IF IsNaN(x) THEN <<".nan">>
    ELSE IF x[1] < 0 THEN <<"-">> \o UnsignedText(FNeg(x))
    ELSE UnsignedText(x)

\* a string is single-quoted when it would not read back as a plain scalar
NeedsQuote(text) ==
    \/ text = << >>
    \/ text[1] \in {"#", ",", "-", " ", "'"}
    \/ text[Len(text)] = " "
    \/ Contains(text, <<" ", "#">>)

ScalarText(val) ==
    CASE val.t = "usize" -> <<ToString(val.v[1])>>
      [] val.t = "f64" -> FloatText(val.v)
      [] val.t = "bool" -> IF val.v[1] THEN <<"true">> ELSE <<"false">>
      [] val.t = "null" -> <<"null">>
      [] val.t = "str" ->
            IF NeedsQuote(val.v) THEN <<"'">> \o val.v \o <<"'">> ELSE val.v

\* a Pair is a mapping with the keys a and b
PairLines(val) ==
    << <<"a:", " ">> \o ScalarText(val.v[1]), <<"b:", " ">> \o ScalarText(val.v[2]) >>

\* the two lines of a mapping, each after its indentation
Indented(lines, first, rest) == <<first \o lines[1], rest \o lines[2]>>

ItemLines(item) ==
    IF item.t = "pair"
    THEN Indented(PairLines(item), <<"-", " ">>, <<" ", " ">>)
    ELSE << <<"-", " ">> \o ScalarText(item) >>

\* the lines a field value is written on; the first is the rest of the key's line
ValueLines(val) ==
    CASE val.t = "list" ->
            IF val.v = << >> THEN << <<" ", "[]">> >>
            ELSE << << >> >> \o Concat([i \in 1..Len(val.v) |-> ItemLines(val.v[i])])
      [] val.t = "pair" ->
            << << >> >> \o Indented(PairLines(val), <<" ", " ">>, <<" ", " ">>)
      [] OTHER -> << <<" ">> \o ScalarText(val) >>

Fd(key, type, optional) == [key |-> key, type |-> type, optional |-> optional]

\* The fields of each transformer struct that are serialized, in order.

\* struct AlignTransform
AlignTransformFields ==
    <<Fd("cost_max_abs:", "f64", FALSE)>>

\* struct AppendTransform
AppendTransformFields ==
    <<Fd("filepath:", "path", TRUE), Fd("comment:", "char", FALSE),
     Fd("delimiter:", "char", FALSE), Fd("horizontal:", "bool", FALSE)>>

\* struct AverageTransform
AverageTransformFields ==
    << >>

\* struct BaselineTransform
BaselineTransformFields ==
    <<Fd("points:", "list_pair_f64", FALSE), Fd("store:", "bool", FALSE)>>

\* struct CalibrationTransform
CalibrationTransformFields ==
    <<Fd("points:", "list_pair_f64", FALSE)>>

\* struct CountConversionTransform
CountConversionTransformFields ==
    <<Fd("exposure:", "f64", FALSE), Fd("conversion_factor:", "f64", FALSE)>>

\* struct DespikeTransform
DespikeTransformFields ==
    <<Fd("siglim:", "f64", FALSE), Fd("flim:", "f64", FALSE)>>

\* struct FinningTransform
FinningTransformFields ==
    <<Fd("threshold:", "f64", FALSE), Fd("iterations:", "usize", FALSE)>>

\* struct IntegrateTransform
IntegrateTransformFields ==
    <<Fd("bounds:", "list_pair_f64", FALSE), Fd("local_baseline:", "bool", FALSE)>>

\* struct MaskTransform
MaskTransformFields ==
    <<Fd("mask:", "list_pair_usize", FALSE)>>

\* struct NormalizeTransform
NormalizeTransformFields ==
    <<Fd("xi:", "f64", FALSE), Fd("xj:", "f64", TRUE),
     Fd("local_baseline:", "bool", FALSE), Fd("target_frames:", "list_usize", TRUE),
     Fd("filter_range:", "pair_f64", TRUE)>>

\* struct OffsetTransform
OffsetTransformFields ==
    <<Fd("offset:", "f64", FALSE), Fd("percentile:", "bool", FALSE),
     Fd("target_frames:", "list_usize", TRUE)>>

\* struct RamanShiftTransform
RamanShiftTransformFields ==
    <<Fd("wavelength:", "f64", FALSE), Fd("refractive_index:", "f64", FALSE),
     Fd("correction:", "f64", TRUE)>>

\* struct ReshapeTransform
ReshapeTransformFields ==
    <<Fd("rows:", "usize", FALSE)>>

\* struct SelectTransform
SelectTransformFields ==
    <<Fd("frames:", "list_usize", FALSE), Fd("invert:", "bool", FALSE)>>

\* struct SubtractTransform
SubtractTransformFields ==
    <<Fd("subtrahend:", "usize", FALSE), Fd("minuends:", "list_usize", TRUE),
     Fd("direct:", "bool", FALSE)>>

\* struct PlotTransform
PlotTransformFields ==
    <<Fd("line_width:", "f64", TRUE), Fd("x_lim:", "pair_f64", TRUE),
     Fd("y_lim:", "pair_f64", TRUE), Fd("pixels:", "bool", FALSE)>>

\* struct DrawBaselineTransform
DrawBaselineTransformFields ==
    <<Fd("points:", "list_pair_f64", TRUE), Fd("store:", "bool", FALSE)>>

\* struct Cli: command is not serialized, and None when it is missing
CliFields ==
    <<Fd("filepath:", "path", TRUE), Fd("comment:", "char", FALSE),
     Fd("delimiter:", "char", FALSE)>>

\* the serialized fields of the struct called name
Schema(name) ==
    CASE name = "AlignTransform" -> AlignTransformFields
      [] name = "AppendTransform" -> AppendTransformFields
      [] name = "AverageTransform" -> AverageTransformFields
      [] name = "BaselineTransform" -> BaselineTransformFields
      [] name = "CalibrationTransform" -> CalibrationTransformFields
      [] name = "CountConversionTransform" -> CountConversionTransformFields
      [] name = "DespikeTransform" -> DespikeTransformFields
      [] name = "FinningTransform" -> FinningTransformFields
      [] name = "IntegrateTransform" -> IntegrateTransformFields
      [] name = "MaskTransform" -> MaskTransformFields
      [] name = "NormalizeTransform" -> NormalizeTransformFields
      [] name = "OffsetTransform" -> OffsetTransformFields
      [] name = "RamanShiftTransform" -> RamanShiftTransformFields
      [] name = "ReshapeTransform" -> ReshapeTransformFields
      [] name = "SelectTransform" -> SelectTransformFields
      [] name = "SubtractTransform" -> SubtractTransformFields
      [] name = "PlotTransform" -> PlotTransformFields
      [] name = "DrawBaselineTransform" -> DrawBaselineTransformFields
      [] name = "Cli" -> CliFields

\* REGISTER: the names yaml_segment_to_transform matches
REGISTERED ==
    {"AlignTransform", "AppendTransform", "AverageTransform", "CalibrationTransform",
     "CountConversionTransform", "DespikeTransform", "BaselineTransform",
     "FinningTransform", "IntegrateTransform", "MaskTransform", "NormalizeTransform",
     "OffsetTransform", "RamanShiftTransform", "ReshapeTransform", "SelectTransform",
     "SubtractTransform"}

\* a transformer: its struct name and its serialized fields
Transformer(name, vals) ==
    [name |-> name,
     fields |-> [i \in 1..Len(vals) |-> [key |-> Schema(name)[i].key, val |-> vals[i]]]]

Param(trnsf, key) ==
    LET i == CHOOSE k \in 1..Len(trnsf.fields) : trnsf.fields[k].key = key
    IN  trnsf.fields[i].val

FieldText(field) == <<field.key>> \o PrefixEach(ValueLines(field.val), << >>)

\* serde_yaml::to_string of a struct with #[serde(tag = "transformation")]
config_to_string(trnsf) ==
    TAG \o <<trnsf.name, NL>>
        \o Concat([i \in 1..Len(trnsf.fields) |-> FieldText(trnsf.fields[i])])

\* the values serde_yaml::from_str reads back, by field type
FloatDom == {F(0), F(1), F(2), Half, <<5, 2>>, F(-1)}

PathDom ==
    {<<"b.csv">>, <<"a", "b.csv">>, <<"a", "#", " ", "b.csv">>,
     <<"a", "-", "-", "-", "b.csv">>}

PairDom(type) ==
    IF type = "f64" THEN {Pair(Fl(a), Fl(b)) : a \in {F(0), F(2)}, b \in {F(1), F(2)}}
    ELSE {Pair(U(a), U(b)) : a \in 0..2, b \in 0..2}

ListDom(items) == {List(<< >>)} \cup {List(<<a>>) : a \in items}
                     \cup {List(<<a, b>>) : a \in items, b \in items}

TypeDom(type) ==
    CASE type = "usize" -> {U(n) : n \in 0..4}
      [] type = "f64" -> {Fl(x) : x \in FloatDom}
      [] type = "bool" -> {B(b) : b \in BOOLEAN}
      [] type = "char" -> {Str(<<"#">>), Str(<<",">>), Str(<<";">>)}
      [] type = "path" -> {Str(x) : x \in PathDom}
      [] type = "pair_f64" -> PairDom("f64")
      [] type = "list_usize" -> ListDom({U(n) : n \in 0..3})
      [] type = "list_pair_f64" -> ListDom(PairDom("f64"))
      [] type = "list_pair_usize" -> ListDom(PairDom("usize"))

Keys(fields) == {fields[i].key : i \in 1..Len(fields)}

\* the keys of the documents of the model: the fields of the structs, and
\* target_scans, which the YAML of the test of OffsetTransform carries and no
\* struct has
KEYS ==
    {"transformation:", "preprocessor:", "a:", "b:", "target_scans:"}
        \cup UNION {Keys(Schema(n)) :
                        n \in REGISTERED \cup {"PlotTransform", "DrawBaselineTransform"}}

\* the top-level mapping of a document: each key with the lines of its value
RECURSIVE ParseEntries(_, _)
ParseEntries(lines, acc) ==
    IF lines = << >> THEN [ok |-> TRUE, entries |-> acc]
    ELSE LET line == lines[1]
         IN  IF line = << >> THEN ParseEntries(Tail(lines), acc)
             ELSE IF line[1] \in KEYS
             THEN ParseEntries(Tail(lines),
                               Append(acc, [key |-> line[1], lines |-> <<Tail(line)>>]))
             ELSE IF line[1] \in {" ", "-"} /\ acc # << >>
             THEN LET last == acc[Len(acc)]
                  IN  ParseEntries(Tail(lines),
                          [acc EXCEPT ![Len(acc)] =
                              [key |-> last.key, lines |-> Append(last.lines, line)]])
             ELSE [ok |-> FALSE, entries |-> << >>]

Invalid == [t |-> "invalid", v |-> << >>]

\* the value that is written as the lines, if there is one
Written(vals) == IF vals = {} THEN Invalid ELSE CHOOSE v \in vals : TRUE

\* one field of a struct, hits being the entries with its key
DecodeHits(fd, entries, hits) ==
    IF hits = {} THEN (IF fd.optional THEN Null ELSE Invalid)
    ELSE IF Cardinality(hits) > 1 THEN Invalid
    ELSE Written({v \in TypeDom(fd.type) \cup (IF fd.optional THEN {Null} ELSE {}) :
                     ValueLines(v) = entries[CHOOSE i \in hits : TRUE].lines})

\* one field of a struct: a missing Option is None, a missing or doubled
\* field and a value of another type are errors, other keys are ignored
DecodeField(fd, entries) ==
    DecodeHits(fd, entries, {i \in 1..Len(entries) : entries[i].key = fd.key})

\* the struct of the decoded fields, if every field is valid
Decoded(name, vals) ==
    IF \E i \in 1..Len(vals) : vals[i] = Invalid
    THEN Err("Offending YAML input")
    ELSE Ok(Transformer(name, vals))

\* the fields of the struct out of the entries of the document
DecodeFields(name, fields, parsed) ==
    IF ~parsed.ok THEN Err("Offending YAML input")
    ELSE Decoded(name, SubSeq([i \in 1..Len(fields) |-> DecodeField(fields[i], parsed.entries)],
                              1, Len(fields)))

\* serde_yaml::from_str::<T>(segment), T the struct called name
from_str(name, segment) ==
    DecodeFields(name, Schema(name), ParseEntries(Lines(segment), << >>))

\* runs of [a-zA-Z]
LETTERS == REGISTERED \cup {"PlotTransform", "DrawBaselineTransform", "Transform"}

\* the lines that match ^transformation: ([a-zA-Z]*)$
TagLinesOf(lines) ==
    {i \in 1..Len(lines) :
        /\ StartsWith(lines[i], TAG)
        /\ \/ Len(lines[i]) = 2
           \/ Len(lines[i]) = 3 /\ lines[i][3] \in LETTERS}

\* the lines of the segment that match (?m)^transformation: ([a-zA-Z]*)$
TagLines(segment) == TagLinesOf(Lines(segment))

parse_yaml_transformer(transformer_struct_name, yaml_segment) ==
    IF transformer_struct_name \in REGISTERED
    THEN from_str(transformer_struct_name, yaml_segment)
    ELSE Err("Input string matches no known transformer")

\* the first capture group of the tag line
Capture(line) == IF Len(line) = 2 THEN "" ELSE line[3]

\* re.captures(segment): the first match names the struct
FirstCapture(lines, tags) == Capture(lines[CHOOSE i \in tags : \A k \in tags : i <= k])

yaml_segment_to_transform(segment) ==
    IF TagLines(segment) = {}
    THEN Err("No transformer declared in input string")
    ELSE parse_yaml_transformer(FirstCapture(Lines(segment), TagLines(segment)), segment)

\* a push that drops the segment that could not be parsed
push_lenient(transformations, r) ==
    IF r.kind = "Ok" THEN Ok(Append(transformations, r.val)) ELSE Ok(transformations)

\* transformations.push(r?): the error is returned by the ? operator
push(transformations, r) ==
    IF r.kind = "Ok" THEN Ok(Append(transformations, r.val)) ELSE r

\* the body of the loop of Pipeline::from_yaml_header: a segment with a tag
\* is parsed and pushed
push_segment(transformations, segment) ==
    IF Contains(segment, TAG)
    THEN push(transformations, yaml_segment_to_transform(segment))
    ELSE Ok(transformations)

\* the loop of Pipeline::from_yaml_header over the segments from index i on,
\* r being the pipeline so far or the error that ended the loop
RECURSIVE from_segments(_, _, _)
from_segments(segments, i, r) ==
    IF r.kind # "Ok" \/ i > Len(segments) THEN r
    ELSE from_segments(segments, i + 1,
                       push_segment(r.val, Trim(Replace(segments[i], COMMENT_PREFIX, << >>))))

from_yaml_header(yaml_header) ==
    from_segments(Split(yaml_header, DELIMITER), 1, Ok(<< >>))

\* ------------------------------------------------------------ Array2<f64>
\* A matrix keeps its shape beside its cells: a matrix without rows still
\* has a number of columns.  Indices are 0-based as in the code.

Array2(nrows, ncols, f(_, _)) ==
    [nrows |-> nrows, ncols |-> ncols,
     cells |-> [i \in 1..nrows |-> [j \in 1..ncols |-> f(i - 1, j - 1)]]]

zeros(nrows, ncols) == Array2(nrows, ncols, LAMBDA i, j : F(0))

\* data[[i, j]]
Cell(data, i, j) == data.cells[i + 1][j + 1]

\* the j-th item of data.axis_iter(Axis(1))
column(data, j) == [i \in 1..data.nrows |-> data.cells[i][j + 1]]

\* ndarray::concatenate of two matrices along an axis
concatenate(axis, a, b) ==
    IF axis = 0
    THEN IF a.ncols # b.ncols THEN Err("ShapeError")
         ELSE Ok(Array2(a.nrows + b.nrows, a.ncols,
                        LAMBDA i, j : IF i < a.nrows THEN Cell(a, i, j)
                                      ELSE Cell(b, i - a.nrows, j)))
    ELSE IF a.nrows # b.nrows THEN Err("ShapeError")
         ELSE Ok(Array2(a.nrows, a.ncols + b.ncols,
                        LAMBDA i, j : IF j < a.ncols THEN Cell(a, i, j)
                                      ELSE Cell(b, i, j - a.ncols)))

RECURSIVE Sum(_)
Sum(s) == IF s = << >> THEN F(0) ELSE FAdd(s[1], Sum(Tail(s)))

\* ---------------------------------------------------------------- Dataset

Dataset(data, metadata, previous_comments) ==
    [data |-> data, metadata |-> metadata, previous_comments |-> previous_comments]

\* Dataset::default()
NoDataset == Dataset(zeros(0, 0), << >>, << >>)

\* a file: its comment lines and the matrix of its CSV rows
File(comments, data) == [comments |-> comments, data |-> data]

NoRun ==
    /\ dataset = NoDataset
    /\ pipeline = << >>
    /\ step = 0
    /\ fs = << >>

\* input_string.lines().filter(|line| line.starts_with(comment))
\*     .map(|line| format!("{}\n", line)).collect()
comment_lines(text, comment) ==
    PrefixEach(SelectSeq(Lines(text), LAMBDA line : StartsWith(line, <<comment>>)), << >>)

\* the comments of a file under the line that names the file, if there are any
input_comments(filepath, previous_comments) ==
    IF previous_comments = << >> THEN << >>
    ELSE <<"comments", " ", "from", " ", "input", " ", "file", " ">>
             \o filepath \o <<":", NL>> \o previous_comments

\* Dataset::from_csv of Some(filepath); files maps the paths that exist
from_csv(files, filepath, comment) ==
    IF filepath \notin DOMAIN files THEN Err("No such file or directory")
    ELSE Ok(Dataset(files[filepath].data, << >>,
                    input_comments(filepath,
                                   comment_lines(files[filepath].comments, comment))))

\* the Cli arguments that are serialized
Cli(filepath) ==
    <<[key |-> "filepath:", val |-> Str(filepath)],
      [key |-> "comment:", val |-> Str(<<"#">>)],
      [key |-> "delimiter:", val |-> Str(<<",">>)]>>

\* dataset.metadata = "preprocessor: arguments\n" + to_string(&self.args)? + "---\n"
with_arguments(r, args) ==
    IF r.kind # "Ok" THEN r
    ELSE Ok([r.val EXCEPT !.metadata =
                <<"preprocessor:", " ", "arguments", NL>>
                    \o Concat([i \in 1..Len(args) |-> FieldText(args[i])])
                    \o DELIMITER \o <<NL>>])

\* Preprocessor::get_input_data
get_input_data(files, args) ==
    with_arguments(from_csv(files, args[1].val.v, args[2].val.v[1]), args)

\* what Dataset::write writes before the CSV rows
write_header(ds) ==
    <<"#", " ", "Raman", " ", "CLI", " ", "Tools", " ", "version", " ", "V.", NL,
      "#", " ", "-", "-", "-", NL>>
        \o PrefixLines(ds.metadata, COMMENT_PREFIX)
        \o PrefixLines(ds.previous_comments, COMMENT_PREFIX)

\* Dataset::write, as the file it leaves
write(ds) == File(write_header(ds), ds.data)

\* a write_metadata_yaml that does not close the block with the delimiter
write_metadata_yaml_open(trnsf, ds) ==
    [ds EXCEPT !.metadata = @ \o config_to_string(trnsf)]

\* Transformer::write_metadata_yaml
write_metadata_yaml(trnsf, ds) ==
    [ds EXCEPT !.metadata = @ \o config_to_string(trnsf) \o DELIMITER \o <<NL>>]

\* ------------------------------------------------------------ transformers
\* A transform returns its result and the dataset it leaves behind:
\* [r |-> Ok / Err / Panic, ds |-> the dataset after the call].

Left(r, ds) == [r |-> r, ds |-> ds]

Unit == << >>

\* the two nested loops of ReshapeTransform::transform, flattened: iteration
\* t has i = t % rows and j = 2 * (t / rows); a and b are the counters
RECURSIVE reshape_loop(_, _, _, _, _, _, _)
reshape_loop(data, data_reshaped, rows, iterations, t, a, b) ==
    IF t = iterations THEN Ok(data_reshaped)
    ELSE IF a >= data.nrows \/ b + 1 >= data.ncols
    THEN Panic("index out of bounds")
    ELSE LET i == t % rows
             j == 2 * (t \div rows)
         IN  reshape_loop(data,
                 [data_reshaped EXCEPT !.cells[i + 1][j + 1] = Cell(data, a, b),
                                       !.cells[i + 1][j + 2] = Cell(data, a, b + 1)],
                 rows, iterations, t + 1,
                 IF a + 1 = data.nrows THEN 0 ELSE a + 1,
                 IF a + 1 = data.nrows THEN b + 2 ELSE b)

\* dataset.data = r; Ok(()) -- or the error or panic r, the dataset as it was
assign_data(ds, r) ==
    IF r.kind = "Ok" THEN Left(Ok(Unit), [ds EXCEPT !.data = r.val]) ELSE Left(r, ds)

\* one pair short of the iterations of the loops
reshape_iterations_short(rows, number_cols_reshaped) ==
    Max(0, rows * (number_cols_reshaped \div 2) - 1)

\* the iterations of for j in (0..number_cols_reshaped - 1).step_by(2)
\* { for i in 0..self.rows { .. } }
reshape_iterations(rows, number_cols_reshaped) == rows * (number_cols_reshaped \div 2)

\* ReshapeTransform::transform from the first check on
reshape_checked(ds, rows, number_cols_reshaped) ==
    IF rows * number_cols_reshaped # ds.data.nrows * ds.data.ncols
    THEN Left(Err("Cannot reshape data"), ds)
    ELSE IF number_cols_reshaped = 0
    THEN Left(Err("number of reshaped rows must not be zero"), ds)
    ELSE assign_data(ds, reshape_loop(ds.data, zeros(rows, number_cols_reshaped), rows,
                                      reshape_iterations(rows, number_cols_reshaped),
                                      0, 0, 0))

\* number_cols * number_rows / self.rows, and the rest
reshape_rows(ds, rows) ==
    IF rows = 0 THEN Left(Panic("attempt to divide by zero"), ds)
    ELSE reshape_checked(ds, rows, (ds.data.ncols * ds.data.nrows) \div rows)

\* ReshapeTransform::transform
reshape_transform(self, ds) == reshape_rows(ds, Param(self, "rows:").v[1])

\* the norm of one frame in NormalizeTransform::transform
normalize_norm(self, xs, ys) ==
    IF Param(self, "xj:") = Null
    THEN LET idx == nearest_index(xs, Param(self, "xi:").v)
         IN  IF idx.some THEN Ok(At(ys, idx.idx)) ELSE Err("could not find xi in dataset")
    ELSE trapz(xs, ys, Param(self, "xi:").v, Param(self, "xj:").v,
               Param(self, "local_baseline:").v[1])

RECURSIVE normalize_loop(_, _, _)

\* one iteration of the loop of NormalizeTransform::transform: the ys of
\* frame k are divided in place as soon as the norm of the frame is known
normalize_frame(self, ds, k, norm) ==
    IF norm.kind # "Ok" THEN Left(norm, ds)
    ELSE IF Param(self, "filter_range:") # Null
    THEN normalize_loop(self, ds, k + 1)
    ELSE normalize_loop(self,
             [ds EXCEPT !.data =
                 Array2(@.nrows, @.ncols,
                        LAMBDA i, j : IF j = 2 * k + 1
                                      THEN FDiv(Cell(@, i, j), norm.val)
                                      ELSE Cell(@, i, j))],
             k + 1)

\* the loop of NormalizeTransform::transform over the frames from frame k on
normalize_loop(self, ds, k) ==
    IF k >= ds.data.ncols \div 2 THEN Left(Ok(Unit), ds)
    ELSE normalize_frame(self, ds, k,
             normalize_norm(self, column(ds.data, 2 * k), column(ds.data, 2 * k + 1)))

\* (n - 1) * 2 of one target of iter_mut_selected_frames, d being n - 1
doubled_index(d) ==
    IF d.kind # "Ok" THEN d ELSE usize(d.val * 2, "attempt to multiply with overflow")

\* ts.iter().map(|n| (n - 1) * 2).collect(): Ok, or the first overflow
RECURSIVE selected_indices(_, _)
selected_indices(ts, i) ==
    IF i > Len(ts) THEN Ok(Unit)
    ELSE IF doubled_index(usize(ts[i] - 1, "attempt to subtract with overflow")).kind # "Ok"
    THEN doubled_index(usize(ts[i] - 1, "attempt to subtract with overflow"))
    ELSE selected_indices(ts, i + 1)

\* Dataset::iter_mut_selected_frames computes (n - 1) * 2 for every target,
\* drops the indices and yields every frame
iter_mut_selected_frames(targets) ==
    IF targets = Null THEN Ok(Unit)
    ELSE selected_indices([i \in 1..Len(targets.v) |-> targets.v[i].v[1]], 1)

\* the loop of NormalizeTransform::transform over the frames the iterator
\* yields
normalize_frames(self, ds, frames_iter) ==
    IF frames_iter.kind # "Ok" THEN Left(frames_iter, ds) ELSE normalize_loop(self, ds, 0)

\* NormalizeTransform::transform
normalize_transform(self, ds) ==
    normalize_frames(self, ds, iter_mut_selected_frames(Param(self, "target_frames:")))

\* trapz in iteration t of the two loops of IntegrateTransform::transform:
\* frame t / bounds.len(), bounds t % bounds.len()
integrate_trapz(self, ds, bounds, t) ==
    trapz(column(ds.data, 2 * (t \div Len(bounds))),
          column(ds.data, 2 * (t \div Len(bounds)) + 1),
          bounds[(t % Len(bounds)) + 1].v[1].v, bounds[(t % Len(bounds)) + 1].v[2].v,
          Param(self, "local_baseline:").v[1])

\* the matrix of the integrals with the frames counted from 0
integrate_collect_from_zero(ds, frames, n, results) ==
    IF \E t \in 1..Len(results) : results[t].kind # "Ok"
    THEN Left(results[CHOOSE t \in 1..Len(results) : results[t].kind # "Ok"], ds)
    ELSE Left(Ok(Unit),
              [ds EXCEPT !.data =
                  Array2(frames, n * 2,
                         LAMBDA i, c : IF c % 2 = 0 THEN F(i)
                                       ELSE results[i * n + c \div 2 + 1].val)])

\* the first error of the iterations, or the matrix of the integrals
integrate_collect(ds, frames, n, results) ==
    IF \E t \in 1..Len(results) : results[t].kind # "Ok"
    THEN Left(results[CHOOSE t \in 1..Len(results) :
                         /\ results[t].kind # "Ok"
                         /\ \A u \in 1..t - 1 : results[u].kind = "Ok"], ds)
    ELSE Left(Ok(Unit),
              [ds EXCEPT !.data =
                  Array2(frames, n * 2,
                         LAMBDA i, c : IF c % 2 = 0 THEN F(i + 1)
                                       ELSE results[i * n + c \div 2 + 1].val)])

\* the results of trapz in the iterations 0 .. count - 1
integrate_results(self, ds, bounds, count) ==
    SubSeq([t \in 1..count |-> integrate_trapz(self, ds, bounds, t - 1)], 1, count)

\* IntegrateTransform::transform
integrate_transform(self, ds) ==
    integrate_collect(ds, ds.data.ncols \div 2, Len(Param(self, "bounds:").v),
                      integrate_results(self, ds, Param(self, "bounds:").v,
                          (ds.data.ncols \div 2) * Len(Param(self, "bounds:").v)))

\* dataset.data = ndarray::concatenate(..)?, the comments being appended
append_data(commented, data) ==
    IF data.kind # "Ok" THEN Left(data, commented)
    ELSE Left(Ok(Unit), [commented EXCEPT !.data = data.val])

\* the part of AppendTransform::transform after the file has been read
append_dataset(self, ds, new_dataset) ==
    IF new_dataset.kind # "Ok" THEN Left(new_dataset, ds)
    ELSE append_data([ds EXCEPT !.previous_comments =
                         @ \o <<NL>> \o new_dataset.val.previous_comments],
                     concatenate(IF Param(self, "horizontal:").v[1] THEN 0 ELSE 1,
                                 ds.data, new_dataset.val.data))

\* AppendTransform::transform, filepath being Some path of a CSV file
append_transform(self, ds, files) ==
    append_dataset(self, ds,
                   from_csv(files, Param(self, "filepath:").v, Param(self, "comment:").v[1]))

\* AverageTransform::transform
average_transform(self, ds) ==
    LET columns == ds.data.ncols \div 2
    IN  IF ds.data.ncols = 0 THEN Left(Panic("index out of bounds"), ds)
        ELSE IF columns = 0
        THEN Left(Panic("unwrap on a None value"), ds)
        ELSE Left(Ok(Unit),
                  [ds EXCEPT !.data =
                      Array2(@.nrows, 2,
                             LAMBDA i, j :
                                 IF j = 0 THEN Cell(@, i, 0)
                                 ELSE FDiv(Sum([k \in 1..columns |-> Cell(@, i, 2 * k - 1)]),
                                           F(columns)))])

\* (frame_no - 1) * 2 >= self.data.ncols(), the product being a usize
frame_out_of_bounds(data, doubled) ==
    IF doubled.kind # "Ok" THEN doubled
    ELSE IF doubled.val >= data.ncols THEN Err("frame number is out of bounds")
    ELSE Ok(Unit)

\* Dataset::verify_one_frame_in_bounds
verify_one_frame_in_bounds(data, frame_no) ==
    IF frame_no = 0 THEN Err("frame count starts at 1")
    ELSE frame_out_of_bounds(data, usize((frame_no - 1) * 2, "attempt to multiply with overflow"))

\* Dataset::verify_frames_in_bounds: the first frame that is not verified
\* ends the loop
RECURSIVE verify_frames_in_bounds(_, _, _)
verify_frames_in_bounds(data, frames, i) ==
    IF i > Len(frames) THEN Ok(Unit)
    ELSE IF verify_one_frame_in_bounds(data, frames[i]).kind # "Ok"
    THEN verify_one_frame_in_bounds(data, frames[i])
    ELSE verify_frames_in_bounds(data, frames, i + 1)

\* the columns select_frames collects: n and n + 1 for every even n whose
\* frame n / 2 + 1 is (with invert: is not) among frames
selection_of(kept) == [k \in 1..2 * Len(kept) |-> kept[(k + 1) \div 2] + ((k + 1) % 2)]

selection(data, frames, invert) ==
    selection_of(Sorted({n \in 0..data.ncols - 1 :
                            /\ n % 2 = 0
                            /\ invert # (\E i \in 1..Len(frames) : frames[i] = n \div 2 + 1)}))

\* self.data.select(Axis(1), &selection)
select(data, columns) ==
    IF columns = << >> THEN Err("selection does not yield any frames")
    ELSE IF \E k \in 1..Len(columns) : columns[k] >= data.ncols
    THEN Panic("index out of bounds")
    ELSE Ok(Array2(data.nrows, Len(columns), LAMBDA i, j : Cell(data, i, columns[j + 1])))

\* Dataset::select_frames
select_frames(data, frames, invert) ==
    IF verify_frames_in_bounds(data, frames, 1).kind # "Ok"
    THEN verify_frames_in_bounds(data, frames, 1)
    ELSE select(data, selection(data, frames, invert))

\* a Vec<usize> field of a transformer
FrameList(self, key) == [i \in 1..Len(Param(self, key).v) |-> Param(self, key).v[i].v[1]]

\* SelectTransform::transform with the sense of invert exchanged
select_transform_inverted(self, ds) ==
    assign_data(ds, select_frames(ds.data, FrameList(self, "frames:"),
                                    ~Param(self, "invert:").v[1]))

\* SelectTransform::transform
select_transform(self, ds) ==
    assign_data(ds, select_frames(ds.data, FrameList(self, "frames:"),
                                    Param(self, "invert:").v[1]))

\* the index ndarray_stats takes for the quantile q = <<n, d>> of len sorted
\* values with the Nearest interpolation: q * (len - 1), rounded half up
nearest_quantile_index(q, len) ==
    (q[1] * (len - 1)) \div q[2]
        + (IF 2 * ((q[1] * (len - 1)) % q[2]) < q[2] THEN 0 ELSE 1)

\* tmp.quantile_mut(q, &Nearest) of the sorted values
quantile_mut(sorted, q) ==
    IF IsNaN(q) \/ ~IsFinite(q) \/ FLt(q, F(0)) \/ FGt(q, F(1))
    THEN Err("Invalid quantile")
    ELSE IF sorted = << >> THEN Err("Empty input")
    ELSE Ok(sorted[nearest_quantile_index(q, Len(sorted)) + 1])

\* the values of a frame that are not NaN, in increasing order
sorted_without_nan(vals) ==
    SortSeq(SelectSeq(vals, LAMBDA x : ~IsNaN(x)), LAMBDA a, b : FLt(a, b))

\* -quantile
negated(r) == IF r.kind = "Ok" THEN Ok(FNeg(r.val)) ELSE r

\* the offset of one frame in OffsetTransform::transform
offset_of(self, vals) ==
    IF Param(self, "percentile:").v[1]
    THEN negated(quantile_mut(sorted_without_nan(vals), Param(self, "offset:").v))
    ELSE Ok(Param(self, "offset:").v)

\* the target frames of OffsetTransform::transform, as the set contains asks
offset_verified(self, ds, verified) ==
    IF verified.kind # "Ok" THEN verified
    ELSE Ok(SeqToSet(FrameList(self, "target_frames:")))

offset_target_frames(self, ds) ==
    IF Param(self, "target_frames:") = Null THEN Ok(0..ds.data.ncols \div 2)
    ELSE offset_verified(self, ds,
             verify_frames_in_bounds(ds.data, FrameList(self, "target_frames:"), 1))

\* vals += offset on the intensity column of frame col_no
add_to_frame(data, col_no, offset) ==
    Array2(data.nrows, data.ncols,
           LAMBDA i, j : IF j = 2 * col_no + 1 THEN FAdd(Cell(data, i, j), offset)
                         ELSE Cell(data, i, j))

RECURSIVE offset_loop(_, _, _, _)

\* one iteration of the loop of OffsetTransform::transform on a target frame
offset_frame(self, ds, target_frames, col_no, offset) ==
    IF offset.kind # "Ok" THEN Left(offset, ds)
    ELSE offset_loop(self, [ds EXCEPT !.data = add_to_frame(@, col_no, offset.val)],
                     target_frames, col_no + 1)

\* for (col_no, mut vals) in dataset.iter_mut_frames().enumerate()
offset_loop(self, ds, target_frames, col_no) ==
    IF col_no >= ds.data.ncols \div 2 THEN Left(Ok(Unit), ds)
    ELSE IF col_no + 1 \notin target_frames
    THEN offset_loop(self, ds, target_frames, col_no + 1)
    ELSE offset_frame(self, ds, target_frames, col_no,
                      offset_of(self, column(ds.data, 2 * col_no + 1)))

offset_targeted(self, ds, target_frames) ==
    IF target_frames.kind # "Ok" THEN Left(target_frames, ds)
    ELSE offset_loop(self, ds, target_frames.val, 0)

\* OffsetTransform::transform
offset_transform(self, ds) == offset_targeted(self, ds, offset_target_frames(self, ds))

\* the minuends of SubtractTransform::transform without the check of the
\* subtrahend
subtract_minuends_unchecked(self, ds) ==
    IF Param(self, "minuends:") # Null
    THEN select_frames(ds.data, FrameList(self, "minuends:"), FALSE)
    ELSE select_frames(ds.data, <<Param(self, "subtrahend:").v[1]>>, TRUE)

\* let mut minuends = ..
subtract_minuends(self, ds) ==
    IF Param(self, "minuends:") # Null
    THEN IF \E i \in 1..Len(FrameList(self, "minuends:")) :
                FrameList(self, "minuends:")[i] = Param(self, "subtrahend:").v[1]
         THEN Err("the minuend frames must not contain the subtrahend frame")
         ELSE select_frames(ds.data, FrameList(self, "minuends:"), FALSE)
    ELSE select_frames(ds.data, <<Param(self, "subtrahend:").v[1]>>, TRUE)

\* ys of the minuend frame whose x column is column n
subtract_ys(direct, minuends, n, grid) ==
    IF direct THEN column(minuends, n + 1)
    ELSE linear_resample_array(column(minuends, n), column(minuends, n + 1), grid)

\* the loop of SubtractTransform::transform over the frames of minuends
subtract_loop(direct, minuends, grid, sub_ys) ==
    Array2(minuends.nrows, minuends.ncols,
           LAMBDA i, j :
               IF j % 2 = 1
               THEN FSub(subtract_ys(direct, minuends, j - 1, grid)[i + 1], sub_ys[i + 1])
               ELSE IF direct THEN Cell(minuends, i, j)
               ELSE grid[i + 1])

\* SubtractTransform::transform from let subtrahend = .. on
subtract_from(self, ds, minuends, subtrahend) ==
    IF minuends.kind # "Ok" THEN Left(minuends, ds)
    ELSE IF subtrahend.kind # "Ok" THEN Left(subtrahend, ds)
    ELSE Left(Ok(Unit),
              [ds EXCEPT !.data = subtract_loop(Param(self, "direct:").v[1], minuends.val,
                                                column(subtrahend.val, 0),
                                                column(subtrahend.val, 1))])

\* SubtractTransform::transform
subtract_transform(self, ds) ==
    subtract_from(self, ds, subtract_minuends(self, ds),
                  select_frames(ds.data, <<Param(self, "subtrahend:").v[1]>>, FALSE))

\* b - 1 and 2 * a - 1 of MaskTransform::transform, r being b or 2 * a
minus_one(r) ==
    IF r.kind # "Ok" THEN r ELSE usize(r.val - 1, "attempt to subtract with overflow")

\* let (frame_idx, pixel_idx) = (2 * a - 1, b - 1): the pair of indices, or
\* the first overflow
mask_indices(frame_idx, pixel_idx) ==
    IF frame_idx.kind # "Ok" THEN frame_idx
    ELSE IF pixel_idx.kind # "Ok" THEN pixel_idx
    ELSE Ok(<<pixel_idx.val, frame_idx.val>>)

mask_pair(pair) ==
    mask_indices(minus_one(usize(2 * pair.v[1].v[1], "attempt to multiply with overflow")),
                 minus_one(Ok(pair.v[2].v[1])))

RECURSIVE mask_collect(_, _, _, _)

\* one iteration of the first loop of MaskTransform::transform
mask_insert(data, pairs, i, mask, indices) ==
    IF indices.kind # "Ok" THEN indices
    ELSE IF indices.val[2] >= data.ncols \/ indices.val[1] >= data.nrows
    THEN mask_collect(data, pairs, i + 1, mask)
    ELSE mask_collect(data, pairs, i + 1, mask \cup {indices.val})

\* the first loop of MaskTransform::transform: the mask as the set of
\* (pixel_idx, frame_idx) it holds
mask_collect(data, pairs, i, mask) ==
    IF i > Len(pairs) THEN Ok(mask)
    ELSE mask_insert(data, pairs, i, mask, mask_pair(pairs[i]))

\* the indices of the frames of a row that are not masked
mask_unmasked_frames(data, pixel_idx, mask) ==
    {idx \in 0..data.ncols - 1 : idx % 2 = 1 /\ <<pixel_idx, idx>> \notin mask}

\* let mean = { .. }: the sum runs over the unmasked frames from left to right
mask_mean(data, pixel_idx, mask) ==
    FDiv(Sum([k \in 1..Cardinality(mask_unmasked_frames(data, pixel_idx, mask)) |->
                 Cell(data, pixel_idx,
                      Sorted(mask_unmasked_frames(data, pixel_idx, mask))[k])]),
         F(Cardinality(mask_unmasked_frames(data, pixel_idx, mask))))

\* the second loop of MaskTransform::transform: the rows are independent, so
\* the order in which the HashMap yields them does not show
mask_apply(data, mask) ==
    Array2(data.nrows, data.ncols,
           LAMBDA i, j : IF <<i, j>> \in mask /\ mask_unmasked_frames(data, i, mask) # {}
                         THEN mask_mean(data, i, mask)
                         ELSE Cell(data, i, j))

mask_masked(ds, mask) ==
    IF mask.kind # "Ok" THEN Left(mask, ds)
    ELSE Left(Ok(Unit), [ds EXCEPT !.data = mask_apply(@, mask.val)])

\* MaskTransform::transform
mask_transform(self, ds) ==
    mask_masked(ds, mask_collect(ds.data, Param(self, "mask:").v, 1, {}))

\* ArrayBase::mean
mean(vals) == FDiv(Sum(vals), F(Len(vals)))

squared_deviations(vals, m) ==
    [i \in 1..Len(vals) |-> FMul(FSub(vals[i], m), FSub(vals[i], m))]

\* the square of intensities_buffer.std(1.0)
variance(vals) == FDiv(Sum(squared_deviations(vals, mean(vals))), F(Len(vals) - 1))

\* quantile_axis_skipnan_mut(Axis(0), n64(0.5), &Nearest) of the sorted
\* values that are not NaN
median_skipnan(sorted) ==
    IF sorted = << >> THEN NaN ELSE sorted[nearest_quantile_index(Half, Len(sorted)) + 1]

\* row.argmax(): the first index of the maximum
argmax(row) ==
    IF row = << >> THEN Err("EmptyInput")
    ELSE IF \E i \in 1..Len(row) : IsNaN(row[i]) THEN Err("UndefinedOrder")
    ELSE Ok(CHOOSE n \in 0..Len(row) - 1 :
                /\ \A k \in 1..Len(row) : FLe(row[k], row[n + 1])
                /\ \A k \in 1..n : FLt(row[k], row[n + 1]))

\* d > threshold * std for finite values, var being the square of std: the
\* square root is avoided by comparing the squares
exceeds(d, threshold, var) ==
    IF FGe(threshold, F(0))
    THEN FGt(d, F(0)) /\ FGt(FMul(d, d), FMul(FMul(threshold, threshold), var))
    ELSE FGt(d, F(0)) \/ FLt(FMul(d, d), FMul(FMul(threshold, threshold), var))

\* what the loop over one row leaves: the result, the row, and the number
\* of replacements
Finned(r, row, iterations) == [r |-> r, row |-> row, steps |-> iterations]

RECURSIVE finning_while(_, _, _, _)

\* the end of the body of the while loop: n = row.argmax()?, and the break
finning_break(threshold, cap, row, iterations, n) ==
    IF n.kind # "Ok" THEN Finned(n, row, iterations)
    ELSE IF iterations > cap THEN Finned(Ok(Unit), row, iterations)
    ELSE finning_while(threshold, cap, row, iterations)

\* iterations += 1; row[n] = intensities_median; ..
finning_replace(threshold, cap, row, iterations) ==
    finning_break(threshold, cap, row, iterations, argmax(row))

\* the condition of the while loop with n = row.argmax()?, and its body
finning_condition(threshold, cap, row, iterations, n, intensities_median) ==
    IF n.kind # "Ok" THEN Finned(n, row, iterations)
    ELSE IF ~exceeds(FSub(row[n.val + 1], intensities_median), threshold, variance(row))
    THEN Finned(Ok(Unit), row, iterations)
    ELSE finning_replace(threshold, cap,
                         [row EXCEPT ![n.val + 1] = intensities_median], iterations + 1)

\* while row[n] > intensities_median + self.threshold * intensities_std
finning_while(threshold, cap, row, iterations) ==
    finning_condition(threshold, cap, row, iterations, argmax(row),
                      median_skipnan(sorted_without_nan(row)))

\* row i of dataset.data.slice_mut(s![.., 1..;2])
intensities(data, i) == [k \in 1..data.ncols \div 2 |-> Cell(data, i, 2 * k - 1)]

\* the dataset with the intensities of row i
with_intensities(ds, i, row) ==
    [ds EXCEPT !.data =
        Array2(@.nrows, @.ncols,
               LAMBDA a, j : IF a = i /\ j % 2 = 1 THEN row[(j + 1) \div 2]
                             ELSE Cell(@, a, j))]

RECURSIVE finning_rows(_, _, _)

\* the row is a view into the dataset: it is changed whatever the result
finning_row(self, ds, i, finned) ==
    IF finned.r.kind # "Ok" THEN Left(finned.r, with_intensities(ds, i, finned.row))
    ELSE finning_rows(self, with_intensities(ds, i, finned.row), i + 1)

\* for mut row in dataset.data.slice_mut(s![.., 1..;2]).axis_iter_mut(Axis(0))
finning_rows(self, ds, i) ==
    IF i >= ds.data.nrows THEN Left(Ok(Unit), ds)
    ELSE finning_row(self, ds, i,
                     finning_while(Param(self, "threshold:").v, Param(self, "iterations:").v[1],
                                   SubSeq(intensities(ds.data, i), 1, ds.data.ncols \div 2), 0))

\* FinningTransform::transform
finning_transform(self, ds) ==
    IF ds.data.ncols \div 2 < 3
    THEN Left(Err("Not enough scans to perform finning"), ds)
    ELSE finning_rows(self, ds, 0)

\* ---------------------------------------------------------------- despike

\* idx % num_elem on i32: the remainder takes the sign of the dividend
rem(idx, num_elem) == Sgn(idx) * (Abs(idx) % num_elem)

\* MirroredArray2::mirror_index
mirror_index(idx, num_elem) ==
    IF idx <= 0 THEN -rem(idx, num_elem)
    ELSE IF idx >= num_elem THEN num_elem - 1 - rem(idx, num_elem)
    ELSE idx

\* Index<[i32; 2]> for MirroredArray2
mirrored(data, i, j) ==
    Cell(data, mirror_index(i, data.nrows), mirror_index(j, data.ncols))

\* a matrix with every cell computed, once
computed(data) ==
    [data EXCEPT !.cells = SubSeq([i \in 1..data.nrows |-> SubSeq(data.cells[i], 1, data.ncols)],
                                  1, data.nrows)]

\* median_window_buffer[0..window_size * window_size] after the loops over
\* k and l: entry index_buffer = k * window_size + l
median_window(input, i, j, window_size) ==
    [n \in 1..window_size * window_size |->
        mirrored(input, i + ((n - 1) \div window_size) - (window_size \div 2),
                        j + ((n - 1) % window_size) - (window_size \div 2))]

\* median_window_buffer[0..window_size * window_size].sort()
sort(buffer) == SortSeq(buffer, FLt)

\* the index median_filter reads the sorted buffer at
median_index(window_size) == window_size \div 2

\* median_filter: the output matrix
median_filter(input, window_size) ==
    computed(Array2(input.nrows, input.ncols,
                    LAMBDA i, j : At(sort(median_window(input, i, j, window_size)),
                                     median_index(window_size))))

\* convolution_elements.into_iter().filter(|x| *x > 0.0).sum()
positive_sum(convolution_elements) ==
    Sum(SelectSeq(convolution_elements, LAMBDA x : FGt(x, F(0))))

\* 2.0 * ij - a - b
subpixel(ij, a, b) == FSub(FSub(FMul(F(2), ij), a), b)

\* the body of the loops of laplace_convolve
laplace_elements(ij, im1j, ijm1, ip1j, ijp1) ==
    <<subpixel(ij, ip1j, ijp1), subpixel(ij, ip1j, ijm1),
      subpixel(ij, im1j, ijp1), subpixel(ij, im1j, ijm1)>>

\* laplace_convolve: db.laplacian
laplace_convolve(input) ==
    computed(Array2(input.nrows, input.ncols,
                    LAMBDA i, j : positive_sum(laplace_elements(
                        mirrored(input, i, j), mirrored(input, i - 1, j),
                        mirrored(input, i, j - 1), mirrored(input, i + 1, j),
                        mirrored(input, i, j + 1)))))

\* the largest r with r * r <= n
isqrt(n) == CHOOSE r \in 0..n : r * r <= n /\ (r + 1) * (r + 1) > n

\* f64::sqrt: exact on the squares of rationals, rounded down to a multiple
\* of 1 / denominator on the other values
sqrt(a) ==
    IF IsNaN(a) \/ a[1] < 0 THEN NaN
    ELSE IF a[2] = 0 THEN Inf
    ELSE Norm(isqrt(a[1] * a[2]), a[2])

\* equation 10: 1.0 / gain * f64::sqrt(gain * median + readnoise.powi(2))
despike_noise(median, gain, readnoise) ==
    FMul(FDiv(F(1), gain), sqrt(FAdd(FMul(gain, median), FMul(readnoise, readnoise))))

\* signal_to_noise_buffer[[i, j]] = laplacian[[i, j]] / (2.0 * noise)
signal_to_noise(laplacian, median_filtered_data, gain, readnoise) ==
    computed(Array2(laplacian.nrows, laplacian.ncols,
                    LAMBDA i, j : FDiv(Cell(laplacian, i, j),
                                       FMul(F(2), despike_noise(Cell(median_filtered_data, i, j),
                                                                gain, readnoise)))))

\* buffer[[i, j]] = a[[i, j]] - b[[i, j]]
difference(a, b) ==
    computed(Array2(a.nrows, a.ncols, LAMBDA i, j : FSub(Cell(a, i, j), Cell(b, i, j))))

\* S' of equation 13: S less its 5x5 median
laplacian_to_noise_of(s) == difference(s, median_filter(s, 5))

\* the fine structure image of equation 14
fine_structure_of(median_filtered_image) ==
    difference(median_filtered_image, median_filter(median_filtered_image, 7))

\* is_cosmic_ray of the cell (i, j)
is_cosmic_ray(laplacian_to_noise, laplacian, fine_structure_image, siglim, flim, i, j) ==
    /\ FGt(Cell(laplacian_to_noise, i, j), siglim)
    /\ FGt(FDiv(Cell(laplacian, i, j), Cell(fine_structure_image, i, j)), flim)

\* the last loop of an iteration: the cosmic rays enter data_mask and take
\* the value of the 3x3 median
despike_replace(db, laplacian_to_noise, laplacian, median_filtered_image, fine_structure_image, siglim, flim) ==
    [input_data |->
         computed(Array2(db.input_data.nrows, db.input_data.ncols,
                         LAMBDA i, j : IF is_cosmic_ray(laplacian_to_noise, laplacian,
                                                        fine_structure_image, siglim, flim, i, j)
                                       THEN Cell(median_filtered_image, i, j)
                                       ELSE Cell(db.input_data, i, j))),
     data_mask |->
         db.data_mask \cup
             {c \in (0..db.input_data.nrows - 1) \X (0..db.input_data.ncols - 1) :
                  is_cosmic_ray(laplacian_to_noise, laplacian, fine_structure_image,
                                siglim, flim, c[1], c[2])}]

\* the images of an iteration, from the laplacian and the 3x3 median on
despike_images(db, laplacian, median_filtered_image, siglim, flim, gain, readnoise) ==
    despike_replace(db,
        laplacian_to_noise_of(signal_to_noise(laplacian, median_filter(db.input_data, 5),
                                              gain, readnoise)),
        laplacian, median_filtered_image, fine_structure_of(median_filtered_image),
        siglim, flim)

\* the body of for _ in 0..iter
despike_iteration(db, siglim, flim, gain, readnoise) ==
    despike_images(db, laplace_convolve(db.input_data), median_filter(db.input_data, 3),
                   siglim, flim, gain, readnoise)

\* despike: the buffer after iter iterations
RECURSIVE despike(_, _, _, _, _, _)
despike(db, siglim, flim, gain, readnoise, iter) ==
    IF iter = 0 THEN db
    ELSE despike(despike_iteration(db, siglim, flim, gain, readnoise),
                 siglim, flim, gain, readnoise, iter - 1)

\* DespikeBuffer::new
DespikeBuffer(original_data) ==
    IF original_data.nrows < 2 \/ original_data.ncols < 2
    THEN Err("spectral dataset must have at least 2 rows and 2 columns")
    ELSE Ok([input_data |-> original_data, data_mask |-> {}])

\* ndarray::stack(Axis(1), &frames) of the columns 1, 3, 5, ..
despike_frames(data) ==
    IF data.ncols \div 2 = 0 THEN Err("Unsupported")
    ELSE Ok(computed(Array2(data.nrows, data.ncols \div 2,
                            LAMBDA i, j : Cell(data, i, 2 * j + 1))))

\* the loops that write the despiked frames to the x columns
despike_assign_x(data, despiked_frames) ==
    Array2(data.nrows, data.ncols,
           LAMBDA i, j : IF j % 2 = 0 /\ j \div 2 < despiked_frames.ncols
                         THEN Cell(despiked_frames, i, j \div 2)
                         ELSE Cell(data, i, j))

\* dataset.data[[i, j * 2 + 1]] = despiked_frames[[i, j]]
despike_assign(data, despiked_frames) ==
    Array2(data.nrows, data.ncols,
           LAMBDA i, j : IF j % 2 = 1 THEN Cell(despiked_frames, i, j \div 2)
                         ELSE Cell(data, i, j))

despike_buffer(self, ds, db) ==
    IF db.kind # "Ok" THEN Left(db, ds)
    ELSE Left(Ok(Unit),
              [ds EXCEPT !.data =
                   despike_assign(ds.data,
                                  despike(db.val, Param(self, "siglim:").v,
                                          Param(self, "flim:").v, F(1), F(6), 4).input_data)])

despike_stacked(self, ds, frames) ==
    IF frames.kind # "Ok" THEN Left(frames, ds)
    ELSE despike_buffer(self, ds, DespikeBuffer(frames.val))

\* DespikeTransform::transform
despike_transform(self, ds) == despike_stacked(self, ds, despike_frames(ds.data))

\* ------------------------------------------------------------------ align

\* (1..self.frame_a.len()).map(|x| x as f64).collect()
cost_grid(len) == [x \in 1..len - 1 |-> F(x)]

\* &grid + *param
shifted_by(grid, param) == [k \in 1..Len(grid) |-> FAdd(grid[k], param)]

\* -(y1 * y0).abs()
cst(y1, y0) == FNeg(FAbs(FMul(y1, y0)))

\* sum += cst, unless cst is NaN
cost_add(sum, term) == IF IsNaN(term) THEN sum ELSE FAdd(sum, term)

\* for (y1, y0) in ys.iter().zip(self.frame_a), from the k-th pair on
RECURSIVE cost_loop(_, _, _, _)
cost_loop(ys, frame_a, k, sum) ==
    IF k > Min(Len(ys), Len(frame_a)) THEN sum
    ELSE cost_loop(ys, frame_a, k + 1, cost_add(sum, cst(ys[k], frame_a[k])))

cost_on(frame_a, frame_b, param, grid) ==
    cost_loop(linear_resample_array(shifted_by(grid, param), frame_b, grid), frame_a, 1, F(0))

\* OptAlignment::cost
cost(frame_a, frame_b, param) == cost_on(frame_a, frame_b, param, cost_grid(Len(frame_a)))

\* ------------------------------------------------------------ command line

\* const COMMANDS
COMMANDS ==
    <<"align", "append", "average", "baseline", "calibration", "count-conversion",
      "default", "despike", "finning", "gui", "integrate", "mask", "normalize", "offset",
      "plot", "reshape", "select", "shift", "subtract">>

\* the loop of Preprocessor::from_cli_args: a word of COMMANDS opens a new
\* sublist, any other word joins the last one
RECURSIVE args_sorted_by_command(_, _, _)
args_sorted_by_command(args_raw, i, sorted) ==
    IF i > Len(args_raw) THEN sorted
    ELSE IF args_raw[i] \in SeqToSet(COMMANDS)
    THEN args_sorted_by_command(args_raw, i + 1, Append(sorted, <<args_raw[i]>>))
    ELSE args_sorted_by_command(args_raw, i + 1,
                                [sorted EXCEPT ![Len(sorted)] = Append(@, args_raw[i])])

\* Preprocessor::from_cli_args: the sublists behind the first
subcommand_args(args_raw) == Tail(args_sorted_by_command(args_raw, 1, << << >> >>))

\* default_transformations
default_transformations ==
    <<Transformer("ReshapeTransform", <<U(1340)>>),
      Transformer("FinningTransform", <<Fl(<<5, 2>>), U(4)>>),
      Transformer("AverageTransform", << >>),
      Transformer("OffsetTransform", <<Fl(<<1, 20>>), B(TRUE), Null>>),
      Transformer("RamanShiftTransform",
                  <<Fl(<<5321, 10>>), Fl(<<125033, 125000>>), Fl(F(0))>>),
      Transformer("CountConversionTransform", <<Fl(F(300)), Fl(<<142857, 100000>>)>>)>>

\* the struct an arm of the match in Pipeline::from_cli_args parses
parsed_struct(command) ==
    CASE command = "align" -> "AlignTransform"
      [] command = "append" -> "AppendTransform"
      [] command = "average" -> "AverageTransform"
      [] command = "baseline" -> "BaselineTransform"
      [] command = "calibrate" -> "CalibrationTransform"
      [] command = "despike" -> "DespikeTransform"
      [] command = "finning" -> "FinningTransform"
      [] command = "mask" -> "MaskTransform"
      [] command = "offset" -> "OffsetTransform"
      [] command = "reshape" -> "ReshapeTransform"
      [] command = "select" -> "SelectTransform"
      [] command = "shift" -> "RamanShiftTransform"
      [] command = "subtract" -> "SubtractTransform"
      [] command = "count-conversion" -> "CountConversionTransform"
      [] command = "integrate" -> "IntegrateTransform"
      [] command = "normalize" -> "NormalizeTransform"
      [] OTHER -> ""

\* T::parse_from(subargs): the struct clap builds from the words of one
\* sublist, kept as the sublist it was built from
parse_from(name, subargs) == [name |-> name, argv |-> subargs]

\* one iteration of the loop of Pipeline::from_cli_args
from_cli_arm(transformations, subargs) ==
    IF subargs = << >> THEN transformations
    ELSE IF subargs[1] = "default" THEN default_transformations
    ELSE IF parsed_struct(subargs[1]) # ""
    THEN Append(transformations, parse_from(parsed_struct(subargs[1]), subargs))
    ELSE transformations

\* Pipeline::from_cli_args
RECURSIVE from_cli_args(_, _, _)
from_cli_args(cli_args, i, transformations) ==
    IF i > Len(cli_args) THEN transformations
    ELSE from_cli_args(cli_args, i + 1, from_cli_arm(transformations, cli_args[i]))

\* Preprocessor::get_pipeline behind Preprocessor::from_cli_args
get_pipeline(args_raw) == from_cli_args(subcommand_args(args_raw), 1, << >>)

\* ------------------------------------------------------------------- shift

\* RamanShiftTransform::transform: the x columns become Raman shifts
shift_transform(self, ds) ==
    Left(Ok(Unit),
         [ds EXCEPT !.data =
             Array2(@.nrows, @.ncols,
                    LAMBDA i, j :
                        IF j % 2 = 1 THEN Cell(@, i, j)
                        ELSE FAdd(FDiv(FSub(FDiv(F(10000000), Param(self, "wavelength:").v),
                                            FDiv(F(10000000), Cell(@, i, j))),
                                       Param(self, "refractive_index:").v),
                                  IF Param(self, "correction:") = Null THEN F(0)
                                  ELSE Param(self, "correction:").v))])

\* -------------------------------------------------------- count conversion

\* dx of CountConversionTransform::transform at row i of the frame whose y
\* column is j: the step to the next row, in the last row the step before
\* it, and 1.0 where no step was taken yet (a single row)
count_conversion_dx(data, i, j) ==
    IF i < data.nrows - 1
    THEN FAbs(FSub(Cell(data, i + 1, j - 1), Cell(data, i, j - 1)))
    ELSE IF data.nrows >= 2
    THEN FAbs(FSub(Cell(data, data.nrows - 1, j - 1), Cell(data, data.nrows - 2, j - 1)))
    ELSE F(1)

\* CountConversionTransform::transform
count_conversion_transform(self, ds) ==
    Left(Ok(Unit),
         [ds EXCEPT !.data =
             Array2(@.nrows, @.ncols,
                    LAMBDA i, j :
                        IF j % 2 = 0 THEN Cell(@, i, j)
                        ELSE FDiv(Cell(@, i, j),
                                  FMul(FMul(count_conversion_dx(@, i, j),
                                            Param(self, "exposure:").v),
                                       Param(self, "conversion_factor:").v)))])

\* the transformers whose transform is modelled
MODELLED ==
    {"ReshapeTransform", "NormalizeTransform", "IntegrateTransform", "AppendTransform",
     "AverageTransform", "SelectTransform", "OffsetTransform", "SubtractTransform",
     "MaskTransform", "FinningTransform", "DespikeTransform", "RamanShiftTransform",
     "CountConversionTransform"}

\* Transformer::transform, by the struct that implements it
transform(self, ds, files) ==
    CASE self.name = "ReshapeTransform" -> reshape_transform(self, ds)
      [] self.name = "NormalizeTransform" -> normalize_transform(self, ds)
      [] self.name = "IntegrateTransform" -> integrate_transform(self, ds)
      [] self.name = "AppendTransform" -> append_transform(self, ds, files)
      [] self.name = "AverageTransform" -> average_transform(self, ds)
      [] self.name = "SelectTransform" -> select_transform(self, ds)
      [] self.name = "OffsetTransform" -> offset_transform(self, ds)
      [] self.name = "SubtractTransform" -> subtract_transform(self, ds)
      [] self.name = "MaskTransform" -> mask_transform(self, ds)
      [] self.name = "FinningTransform" -> finning_transform(self, ds)
      [] self.name = "DespikeTransform" -> despike_transform(self, ds)
      [] self.name = "RamanShiftTransform" -> shift_transform(self, ds)
      [] self.name = "CountConversionTransform" -> count_conversion_transform(self, ds)

\* ---------------------------------------------------------------- inputs

MaxLen == 3

MaxX == 4

\* strictly increasing arrays over 0 .. MaxX, of up to MaxLen points
Increasing(len) ==
    {s \in [1..len -> 0..MaxX] : \A i \in 1..len - 1 : s[i] < s[i + 1]}

ToF(s) == [i \in 1..Len(s) |-> F(s[i])]

YVals == {-1, 2}

Fill(len) == [i \in 1..len |-> F(1)]

\* (xs, ys): every ys of the length of xs, and one ys of every other length
XYPairs ==
    UNION {{<<ToF(xs), ToF(ys)>> : xs \in Increasing(len), ys \in [1..len -> YVals]}
            \cup {<<ToF(xs), Fill(k)>> : xs \in Increasing(len),
                                          k \in (0..MaxLen) \ {len}}
           : len \in 0..MaxLen}

Positions == {F(p) : p \in -1..MaxX + 1}

Idle == [fn |-> "none"]

NoRet == [kind |-> "none", val |-> NaN, msg |-> ""]

\* ------------------------------------------------- specification: trapz

InitTrapz ==
    /\ Batch
    /\ pc = "call"
    /\ build \in {"debug", "release"}
    /\ call \in {[fn |-> "trapz", x |-> xy[1], y |-> xy[2], left |-> l, right |-> r,
                  local_baseline |-> lb] :
                    xy \in XYPairs, l \in Positions, r \in Positions, lb \in BOOLEAN}
    /\ ret = NoRet
    /\ NoRun

CallTrapz ==
    /\ pc = "call"
    /\ call.fn = "trapz"
    /\ ret' = trapz(call.x, call.y, call.left, call.right, call.local_baseline)
    /\ pc' = "done"
    /\ UNCHANGED <<gui, build, call, run>>

NextTrapz == CallTrapz

SpecTrapz == InitTrapz /\ [][NextTrapz]_vars

\* the area under the piecewise-linear interpolant of (xs, ys) over [a, b],
\* clipped to the data range: segment i contributes the trapezoid over
\* [max(xs[i], a), min(xs[i+1], b)] when that interval is not empty
SegmentArea(xs, ys, i, a, b) ==
    LET lo == IF FLt(xs[i], a) THEN a ELSE xs[i]
        hi == IF FLt(b, xs[i + 1]) THEN b ELSE xs[i + 1]
        f(t) == lininterp(t, xs[i], xs[i + 1], ys[i], ys[i + 1])
    IN  IF FLt(lo, hi)
        THEN FMul(FMul(Half, FSub(hi, lo)), FAdd(f(lo), f(hi)))
        ELSE F(0)

RECURSIVE AreaFrom(_, _, _, _, _)
AreaFrom(xs, ys, i, a, b) ==
    IF i >= Len(xs) THEN F(0)
    ELSE FAdd(SegmentArea(xs, ys, i, a, b), AreaFrom(xs, ys, i + 1, a, b))

ExactArea(xs, ys, left, right) ==
    LET a == IF FLt(left, right) THEN left ELSE right
        b == IF FLt(left, right) THEN right ELSE left
    IN  AreaFrom(xs, ys, 1, a, b)

WindowOverlaps(xs, left, right) ==
    LET a == IF FLt(left, right) THEN left ELSE right
        b == IF FLt(left, right) THEN right ELSE left
    IN  FLt(xs[1], b) /\ FLt(a, xs[Len(xs)])

WellFormedXY(xs, ys) == Len(xs) >= 2 /\ Len(ys) = Len(xs)

\* C7: for strictly increasing xs with at least 2 points, ys of the same
\* length and a window that overlaps the data range, trapz without local
\* baseline returns the exact area under the piecewise-linear interpolant
\* over the clipped window (all len-1 trapezoids when the window covers the
\* data range), and the same value with left and right swapped.
C7_TrapzExactArea ==
    (/\ pc = "done"
     /\ ~call.local_baseline
     /\ WellFormedXY(call.x, call.y)
     /\ WindowOverlaps(call.x, call.left, call.right))
    => /\ ret = Ok(ExactArea(call.x, call.y, call.left, call.right))
       /\ trapz(call.x, call.y, call.right, call.left, FALSE) = ret

\* C8: trapz returns an error value, never a crash and never a number, when
\* xs and ys differ in length, either has fewer than 2 points, or the window
\* does not overlap the data range; in every other case it returns a number.
C8_TrapzErrorExactly ==
    pc = "done" =>
        IF ~WellFormedXY(call.x, call.y)
        THEN ret.kind = "Err"
        ELSE IF ~WindowOverlaps(call.x, call.left, call.right)
        THEN ret.kind = "Err"
        ELSE ret.kind = "Ok"

\* ----------------------------------------- specification: nearest_index

NaNOrPos == Positions \cup {NaN}

InitNearest ==
    /\ Batch
    /\ pc = "call"
    /\ build \in {"debug", "release"}
    /\ call \in {[fn |-> "nearest_index", x |-> x, xi |-> xi] :
                    x \in UNION {[1..len -> NaNOrPos] : len \in 0..MaxLen},
                    xi \in Positions}
    /\ ret = None
    /\ NoRun

CallNearest ==
    /\ pc = "call"
    /\ call.fn = "nearest_index"
    /\ ret' = nearest_index(call.x, call.xi)
    /\ pc' = "done"
    /\ UNCHANGED <<gui, build, call, run>>

NextNearest == CallNearest

SpecNearest == InitNearest /\ [][NextNearest]_vars

Valid(x) == {i \in 1..Len(x) : ~IsNaN(x[i])}

Dist(x, i, xi) == FAbs(FSub(x[i], xi))

\* C9: nearest_index returns an index of a non-NaN entry at minimal distance
\* from the target among all non-NaN entries, wherever the NaN entries
\* stand, and None exactly when xs has no non-NaN entry.
C9_NearestSkipsNaN ==
    pc = "done" =>
        IF Valid(call.x) = {}
        THEN ret = None
        ELSE /\ ret.some
             /\ ret.idx + 1 \in Valid(call.x)
             /\ \A i \in Valid(call.x) :
                    FLe(Dist(call.x, ret.idx + 1, call.xi), Dist(call.x, i, call.xi))

\* -------------------------------- specification: linear_resample_array

MaxGrid == 2

Grids == UNION {[1..len -> Positions] : len \in 0..MaxGrid}

InitResample ==
    /\ Batch
    /\ pc = "call"
    /\ build \in {"debug", "release"}
    /\ call \in {[fn |-> "linear_resample_array", xs |-> xy[1], ys |-> xy[2],
                  grid |-> g] :
                    xy \in {p \in XYPairs : Len(p[1]) = Len(p[2])},
                    g \in Grids \cup {xy[1] : xy \in XYPairs}}
    /\ ret = << >>
    /\ NoRun

CallResample ==
    /\ pc = "call"
    /\ call.fn = "linear_resample_array"
    /\ ret' = linear_resample_array(call.xs, call.ys, call.grid)
    /\ pc' = "done"
    /\ UNCHANGED <<gui, build, call, run>>

NextResample == CallResample

SpecResample == InitResample /\ [][NextResample]_vars

\* the value the claim gives for grid entry xi
Resampled(xs, ys, xi) ==
    LET last == Len(xs)
    IN  IF last >= 1 /\ FLe(xs[1], xi) /\ FLt(xi, xs[last])
        THEN LET i == CHOOSE k \in 1..last - 1 : FLe(xs[k], xi) /\ FLt(xi, xs[k + 1])
             IN  lininterp(xi, xs[i], xs[i + 1], ys[i], ys[i + 1])
        ELSE IF last >= 1 /\ FEq(xi, xs[last])
        THEN ys[last]
        ELSE NaN

\* C10: for strictly increasing xs, linear_resample_array returns one value
\* per grid entry in grid order: the interpolation on the segment containing
\* xi when xs[0] <= xi < xs[last], the final y when xi = xs[last], NaN
\* otherwise; resampling (xs, ys) onto grid = xs returns ys.
C10_ResampleByGrid ==
    pc = "done" =>
        /\ Len(ret) = Len(call.grid)
        /\ \A k \in 1..Len(call.grid) :
              ret[k] = Resampled(call.xs, call.ys, call.grid[k])
        /\ (call.grid = call.xs => ret = call.ys)

\* the same for xs of at least 2 points
C10_ResampleTwoPoints ==
    (pc = "done" /\ Len(call.xs) >= 2) => C10_ResampleByGrid

\* ------------------------------------------- specification: a batch run
\* main: get_pipeline, get_input_data, Pipeline::apply, print_dataset.  The
\* command line is in call, the pipeline it names in pipeline.

MaxRows == 3

MaxFrames == 2

MaxSteps == 2

ReshapeTransform(rows) == Transformer("ReshapeTransform", <<U(rows)>>)

NormalizeTransform(xi, xj) ==
    Transformer("NormalizeTransform", <<Fl(xi), xj, B(FALSE), Null, Null>>)

IntegrateTransform(a, b) ==
    Transformer("IntegrateTransform", <<List(<<Pair(Fl(a), Fl(b))>>), B(FALSE)>>)

AppendTransform(filepath, horizontal) ==
    Transformer("AppendTransform", <<Str(filepath), Str(<<"#">>), Str(<<",">>), B(horizontal)>>)

AverageTransform == Transformer("AverageTransform", << >>)

SelectTransform(frame, invert) ==
    Transformer("SelectTransform", <<List(<<U(frame)>>), B(invert)>>)

InPath == <<"in.csv">>

AppendPath == <<"b.csv">>

OutPath(n) == <<"out" \o ToString(n) \o ".csv">>

\* the transformers a command line of the model can name
Pool ==
    {ReshapeTransform(1), ReshapeTransform(2),
     NormalizeTransform(F(1), Null), NormalizeTransform(F(0), Fl(F(2))),
     IntegrateTransform(F(0), F(2)),
     AppendTransform(AppendPath, FALSE), AppendTransform(AppendPath, TRUE),
     AverageTransform, SelectTransform(2, FALSE)}

Pipelines == UNION {[1..n -> Pool] : n \in 0..MaxSteps}

\* input matrices: frames of (x, y) columns, the x axis of a frame starting
\* at 0 or at 2
Inputs ==
    UNION {{Array2(rows, 2 * frames,
                   LAMBDA i, j : IF j % 2 = 0 THEN F(i + start[j \div 2 + 1])
                                 ELSE F(i + 1 + j \div 2)) :
                start \in [1..frames -> {0, 2}]} :
           rows \in 1..MaxRows, frames \in 1..MaxFrames}

Note == <<"#", " ", "note", NL>>

\* the file an AppendTransform of the model reads: 2 rows, one frame
AppendFile ==
    File(<<"#", " ", "b", NL>>,
         Array2(2, 2, LAMBDA i, j : F(i + j)))

Files(input) == [p \in {InPath, AppendPath} |-> IF p = InPath THEN input ELSE AppendFile]

Main(filepath, n) == [fn |-> "main", filepath |-> filepath, run |-> n]

InitPipe ==
    /\ Batch
    /\ pc = "input"
    /\ build \in {"debug", "release"}
    /\ call = Main(InPath, 1)
    /\ ret = NoRet
    /\ dataset = NoDataset
    /\ pipeline \in Pipelines
    /\ step = 0
    /\ fs \in {Files(File(Note, data)) : data \in Inputs}

\* the dataset is bound, or main returns the error
Loaded(r) ==
    IF r.kind = "Ok"
    THEN dataset' = r.val /\ pc' = "transform" /\ ret' = ret
    ELSE dataset' = dataset /\ pc' = "failed" /\ ret' = r

\* let mut dataset = preprocessor.get_input_data()?;
GetInputData ==
    /\ pc = "input"
    /\ Loaded(get_input_data(fs, Cli(call.filepath)))
    /\ step' = 0
    /\ UNCHANGED <<gui, build, call, pipeline, fs>>

\* the dataset as the transform leaves it, and where its result leads
Transformed(t) ==
    /\ dataset' = t.ds
    /\ ret' = t.r
    /\ pc' = CASE t.r.kind = "Ok" -> "write_metadata"
               [] t.r.kind = "Err" -> "failed"
               [] OTHER -> "panicked"

\* Transformer::apply, first half: self.transform(dataset)?
Transform ==
    /\ pc = "transform"
    /\ step < Len(pipeline)
    /\ Transformed(transform(pipeline[step + 1], dataset, fs))
    /\ UNCHANGED <<gui, build, call, pipeline, step, fs>>

\* Transformer::apply, second half: self.write_metadata_yaml(dataset)?
WriteMetadata ==
    /\ pc = "write_metadata"
    /\ dataset' = write_metadata_yaml(pipeline[step + 1], dataset)
    /\ step' = step + 1
    /\ pc' = "transform"
    /\ UNCHANGED <<gui, build, call, ret, pipeline, fs>>

\* preprocessor.print_dataset(&dataset)?, stdout being the output file
PrintDataset ==
    /\ pc = "transform"
    /\ step = Len(pipeline)
    /\ fs' = [p \in DOMAIN fs \cup {OutPath(call.run)} |->
                 IF p = OutPath(call.run) THEN write(dataset) ELSE fs[p]]
    /\ ret' = Ok(Unit)
    /\ pc' = "printed"
    /\ UNCHANGED <<gui, build, call, dataset, pipeline, step>>

NextPipe == GetInputData \/ Transform \/ WriteMetadata \/ PrintDataset

SpecPipe == InitPipe /\ [][NextPipe]_vars

\* dataset.metadata as get_input_data leaves it
Previous == get_input_data(fs, Cli(call.filepath)).val.metadata

\* the configurations of the first k transformers, each closed by the delimiter
Provenance(p, k) == Concat([i \in 1..k |-> config_to_string(p[i]) \o DELIMITER \o <<NL>>])

C3_Metadata ==
    /\ pc \in {"transform", "write_metadata", "failed", "printed"} =>
           dataset.metadata = Previous \o Provenance(pipeline, step)
    /\ pc = "printed" => step = Len(pipeline)
    /\ pc = "failed" => step < Len(pipeline) /\ ret.kind = "Err"

\* C3: during and after Pipeline::apply the metadata is its previous value
\* followed by the configurations of the transformers 0..step-1 in pipeline
\* order, each closed by the delimiter line, step counting the transformers
\* that have succeeded: a configuration is appended only after its transform
\* has succeeded (it is not there while step has not advanced), the failing
\* transformer's configuration is never appended, and after a failure no
\* further step is taken, so no later transformer runs.
C3_MetadataAfterApply == []C3_Metadata /\ [][pc # "failed"]_vars

\* a pipeline of two whose second transformer has failed
C3_Witness ==
    /\ pc = "failed"
    /\ Len(pipeline) = 2
    /\ step = 1
    /\ ret.kind = "Err"
    /\ dataset.metadata = Previous \o Provenance(pipeline, 1)

\* C4: the transformer that returns an error leaves the matrix and the
\* previous_comments as they were when it was called.
C4_FailureChangesNothing ==
    [][pc = "transform" /\ pc' = "failed" =>
          /\ dataset'.data = dataset.data
          /\ dataset'.previous_comments = dataset.previous_comments]_vars

\* C5: the input matrix and the appended file having an even number of
\* columns, the matrix has an even number of columns after every
\* successfully applied transformer.
C5_EvenColumns ==
    pc \in {"transform", "write_metadata", "printed"} => dataset.data.ncols % 2 = 0

\* ------------------------------------------ specification: chained runs
\* The output file of a run is the input file of the next run; the header
\* of an output file is read back as a pipeline, as the GUI does when it
\* opens its input file.

MaxRuns == 2

InitChain ==
    /\ Batch
    /\ pc = "input"
    /\ build \in {"debug", "release"}
    /\ call = Main(InPath, 1)
    /\ ret = NoRet
    /\ dataset = NoDataset
    /\ pipeline \in Pipelines
    /\ step = 0
    /\ fs = Files(File(Note, Array2(2, 2, LAMBDA i, j : F(i + j))))

\* Pipeline::from_yaml_header on the comment lines of the output file
Reconstruct ==
    /\ pc = "printed"
    /\ ret' = from_yaml_header(comment_lines(fs[OutPath(call.run)].comments, "#"))
    /\ pc' = "reconstructed"
    /\ UNCHANGED <<gui, build, call, dataset, pipeline, step, fs>>

\* the next command line names the output file of this run
NextRun ==
    /\ pc = "reconstructed"
    /\ call.run < MaxRuns
    /\ dataset.data.nrows > 0
    /\ dataset.data.ncols > 0
    /\ call' = Main(OutPath(call.run), call.run + 1)
    /\ pipeline' \in Pipelines
    /\ pc' = "input"
    /\ ret' = NoRet
    /\ dataset' = NoDataset
    /\ step' = 0
    /\ UNCHANGED <<gui, build, fs>>

NextChain ==
    GetInputData \/ Transform \/ WriteMetadata \/ PrintDataset \/ Reconstruct \/ NextRun

SpecChain == InitChain /\ [][NextChain]_vars

\* C2: the pipeline read back from an output file is the pipeline of the
\* run that wrote the file, whatever the input file of that run carried in
\* its comments.
C2_OnlyThisRun == pc = "reconstructed" => ret = Ok(pipeline)

\* the header of the output of a first run is read back as its pipeline
C2_FirstRun == pc = "reconstructed" /\ call.run = 1 => ret = Ok(pipeline)

\* ------------------------------------- specification: from_yaml_header
\* Pipeline::from_yaml_header on the header of the output of a successful
\* run of a pipeline.

MaxSegments == 2

\* a value of each field type
SampleValue(fd) ==
    CASE fd.type = "usize" -> U(2)
      [] fd.type = "f64" -> Fl(<<5, 2>>)
      [] fd.type = "bool" -> B(TRUE)
      [] fd.type = "char" -> IF fd.key = "comment:" THEN Str(<<"#">>) ELSE Str(<<",">>)
      [] fd.type = "path" -> Str(AppendPath)
      [] fd.type = "pair_f64" -> Pair(Fl(F(0)), Fl(F(2)))
      [] fd.type = "list_usize" -> List(<<U(1), U(3)>>)
      [] fd.type = "list_pair_f64" ->
            List(<<Pair(Fl(F(0)), Fl(F(1))), Pair(Fl(F(2)), Fl(F(2)))>>)
      [] fd.type = "list_pair_usize" -> List(<<Pair(U(1), U(2))>>)

\* a transformer of a kind, its Option fields being Some or None
Sample(name, some) ==
    Transformer(name, [i \in 1..Len(Schema(name)) |->
                          IF Schema(name)[i].optional /\ ~some THEN Null
                          ELSE SampleValue(Schema(name)[i])])

\* the transformers of the command line that are not registered for parsing
UNREGISTERED == {"PlotTransform", "DrawBaselineTransform"}

HeaderPool ==
    {Sample(name, some) : name \in REGISTERED \cup UNREGISTERED, some \in BOOLEAN}
        \cup {AppendTransform(path, FALSE) : path \in PathDom}

\* the dataset after a run in which the first k transformers of p succeeded
RECURSIVE Printed(_, _)
Printed(p, k) ==
    IF k = 0 THEN get_input_data(Files(File(<< >>, zeros(0, 0))), Cli(InPath)).val
    ELSE write_metadata_yaml(p[k], Printed(p, k - 1))

InitHeader ==
    /\ Batch
    /\ pc = "call"
    /\ build \in {"debug", "release"}
    /\ pipeline \in UNION {[1..n -> HeaderPool] : n \in 0..MaxSegments}
    /\ step = Len(pipeline)
    /\ dataset = Printed(pipeline, Len(pipeline))
    /\ call = [fn |-> "from_yaml_header", yaml_header |-> write_header(dataset)]
    /\ ret = NoRet
    /\ fs = << >>

CallFromYamlHeader ==
    /\ pc = "call"
    /\ call.fn = "from_yaml_header"
    /\ ret' = from_yaml_header(call.yaml_header)
    /\ pc' = "done"
    /\ UNCHANGED <<gui, build, call, run>>

NextHeader == CallFromYamlHeader

SpecHeader == InitHeader /\ [][NextHeader]_vars

\* C1: the header of a successful run of a pipeline of registered
\* transformers is read back as that pipeline: as many transformers, the
\* same struct names in the same order, the same parameter values.
C1_RoundTrip ==
    pc = "done" /\ (\A i \in 1..Len(pipeline) : pipeline[i].name \in REGISTERED) =>
        ret = Ok(pipeline)

\* the round trip of the pipelines whose AppendTransform paths hold neither
\* the comment prefix nor the delimiter
C1_RoundTripPlainPaths ==
    pc = "done" /\ (\A i \in 1..Len(pipeline) :
                       /\ pipeline[i].name \in REGISTERED
                       /\ pipeline[i].name = "AppendTransform" =>
                              /\ ~Contains(Param(pipeline[i], "filepath:").v, COMMENT_PREFIX)
                              /\ ~Contains(Param(pipeline[i], "filepath:").v, DELIMITER)) =>
        ret = Ok(pipeline)

\* the lines of a header that carry a tag with a name that is not registered
UnknownTags(yaml_header) ==
    LET lines == Lines(yaml_header)
    IN  {i \in 1..Len(lines) :
            \E k \in 1..Len(lines[i]) - 1 :
                /\ lines[i][k] = "transformation:"
                /\ lines[i][k + 1] = " "
                /\ (k + 2 > Len(lines[i]) \/ lines[i][k + 2] \notin REGISTERED)}

C6_WitnessFirst ==
    /\ pc = "done"
    /\ Len(pipeline) = 2
    /\ pipeline[1].name \in UNREGISTERED
    /\ pipeline[2].name \in REGISTERED
    /\ ret = Err("Input string matches no known transformer")

\* ------------------------------------------- specification: select_frames
\* One call on one dataset: Dataset::select_frames(&self, frames, invert),
\* or Transformer::transform(&mut self, &mut dataset) of one transformer.

MaxDummyFrames == 3

MaxDummyRows == 2

MaxTargets == 2

\* Dataset::new_test_dummy, for any shape: the cell of row i and column j
\* holds 10 * (i + 1) + (j + 1)
new_test_dummy(nrows, ncols) == Array2(nrows, ncols, LAMBDA i, j : F(10 * (i + 1) + j + 1))

Dummies ==
    {Dataset(new_test_dummy(rows, 2 * frames), << >>, << >>) :
        rows \in 1..MaxDummyRows, frames \in 1..MaxDummyFrames}

\* the frame number whose (frame_no - 1) * 2 is 2^UsizeBits
WrappingFrame == UsizeModulus \div 2 + 1

\* frame numbers: 0, the frames of the largest dataset, the first frame
\* behind it, and a frame number whose double overflows
FrameNumbers == 0..MaxDummyFrames + 1 \cup {WrappingFrame}

FrameLists == UNION {[1..n -> FrameNumbers] : n \in 0..MaxTargets}

Frames(ns) == List([i \in 1..Len(ns) |-> U(ns[i])])

SelectFrames(frames, invert) == Transformer("SelectTransform", <<Frames(frames), B(invert)>>)

InitSelect ==
    /\ Batch
    /\ pc = "call"
    /\ build \in {"debug", "release"}
    /\ dataset \in Dummies
    /\ call \in {[fn |-> "select_frames", frames |-> fr, invert |-> inv] :
                     fr \in FrameLists, inv \in BOOLEAN}
                \cup {[fn |-> "transform", self |-> SelectFrames(fr, inv)] :
                        fr \in FrameLists, inv \in BOOLEAN}
    /\ ret = NoRet
    /\ pipeline = << >>
    /\ step = 0
    /\ fs = << >>

\* dataset.select_frames(&frames, invert): the dataset is borrowed shared;
\* the dataset before the call stays in pipeline, as for transform below
CallSelectFrames ==
    /\ pc = "call"
    /\ call.fn = "select_frames"
    /\ ret' = select_frames(dataset.data, call.frames, call.invert)
    /\ pipeline' = <<dataset>>
    /\ pc' = "done"
    /\ UNCHANGED <<gui, build, call, dataset, step, fs>>

\* what a call of transform leaves: the dataset and the result
Returned(t) ==
    /\ dataset' = t.ds
    /\ ret' = t.r
    /\ pc' = "done"

\* trsf.transform(&mut dataset); the dataset before the call stays in
\* pipeline, as the only entry, for the properties to compare with
CallTransform ==
    /\ pc = "call"
    /\ call.fn = "transform"
    /\ Returned(transform(call.self, dataset, fs))
    /\ pipeline' = <<dataset>>
    /\ UNCHANGED <<gui, build, call, step, fs>>

NextSelect == CallSelectFrames \/ CallTransform

SpecSelect == InitSelect /\ [][NextSelect]_vars

\* the 1-based frame numbers of a matrix: N = ncols / 2
FrameCount(data) == data.ncols \div 2

\* frame k (1-based) of a matrix: its x column and its y column
Frame(data, k) == <<column(data, 2 * (k - 1)), column(data, 2 * (k - 1) + 1)>>

FramesOf(data) == [k \in 1..FrameCount(data) |-> Frame(data, k)]

\* the frames a selection is to contain, in increasing order
Chosen(data, frames, invert) ==
    Sorted({k \in 1..FrameCount(data) : invert # (k \in SeqToSet(frames))})

InvalidFrames(data, frames) ==
    \E i \in 1..Len(frames) : frames[i] = 0 \/ frames[i] > FrameCount(data)

IsMatrix(r, nrows, ncols) ==
    /\ r.kind = "Ok"
    /\ r.val.nrows = nrows
    /\ r.val.ncols = ncols

\* C11: for a dataset with N frames, select_frames(F, invert) fails exactly
\* when some number in F is 0 or greater than N (whatever invert is) or when
\* the selection would contain no frame; otherwise it returns a new matrix;
\* the dataset it was called on is unchanged in every case.
C11_SelectFramesFailsExactly ==
    (pc = "done" /\ call.fn = "select_frames") =>
        /\ dataset = pipeline[1]
        /\ IF InvalidFrames(dataset.data, call.frames)
              \/ Chosen(dataset.data, call.frames, call.invert) = << >>
           THEN ret.kind # "Ok"
           ELSE IsMatrix(ret, dataset.data.nrows,
                         2 * Len(Chosen(dataset.data, call.frames, call.invert)))

\* the same without frame numbers whose double does not fit a usize
C11_FailsExactlyWithoutOverflow ==
    (/\ pc = "done"
     /\ call.fn = "select_frames"
     /\ \A i \in 1..Len(call.frames) : call.frames[i] < WrappingFrame)
    => C11_SelectFramesFailsExactly

\* a release build returns a matrix although a frame number exceeds N
C11_Wrapped ==
    /\ pc = "done"
    /\ call.fn = "select_frames"
    /\ InvalidFrames(dataset.data, call.frames)
    /\ ret.kind = "Ok"

ValidSelection(data, frames) ==
    /\ ~InvalidFrames(data, frames)
    /\ Chosen(data, frames, FALSE) # << >>
    /\ Chosen(data, frames, TRUE) # << >>

\* the frames of data with the numbers in ks, in the order of ks
Picked(data, ks) == [k \in 1..Len(ks) |-> Frame(data, ks[k])]

SelectedFrames(self, ds) == FramesOf(select_transform(self, ds).ds.data)

\* C12: for a set F of valid frame numbers that is neither empty nor all
\* frames, Select(F, invert=false) and Select(F, invert=true) on the same
\* dataset succeed, the first gives the frames in F and the second the frames
\* not in F -- no frame in both, every frame in one -- each frame with its
\* x and y columns intact and in the original relative order.
C12_SelectPartitions ==
    (/\ pc = "done"
     /\ call.fn = "transform"
     /\ call.self.name = "SelectTransform"
     /\ ~Param(call.self, "invert:").v[1]
     /\ ValidSelection(pipeline[1].data, FrameList(call.self, "frames:")))
    => /\ ret = Ok(Unit)
       /\ select_transform(SelectFrames(FrameList(call.self, "frames:"), TRUE),
                           pipeline[1]).r = Ok(Unit)
       /\ FramesOf(dataset.data)
            = Picked(pipeline[1].data,
                     Chosen(pipeline[1].data, FrameList(call.self, "frames:"), FALSE))
       /\ SelectedFrames(SelectFrames(FrameList(call.self, "frames:"), TRUE), pipeline[1])
            = Picked(pipeline[1].data,
                     Chosen(pipeline[1].data, FrameList(call.self, "frames:"), TRUE))
       /\ dataset.metadata = pipeline[1].metadata

\* two of three frames are selected, and the third by the inverted Select
C12_Witness ==
    /\ pc = "done"
    /\ call.fn = "transform"
    /\ call.self = SelectFrames(<<3, 1>>, FALSE)
    /\ FrameCount(pipeline[1].data) = 3
    /\ FrameCount(dataset.data) = 2
    /\ SelectedFrames(SelectFrames(<<3, 1>>, TRUE), pipeline[1])
         = <<Frame(pipeline[1].data, 2)>>

\* ------------------------------------------------ specification: reshape

MaxReshapeRows == 4

MaxReshape == 8

\* datasets of 0 .. MaxReshapeRows rows and 0 .. MaxFrames frames, the
\* empty ones (no rows, no columns) among them
ReshapeInputs ==
    {Dataset(new_test_dummy(rows, 2 * frames), << >>, << >>) :
        rows \in 0..MaxReshapeRows, frames \in 0..MaxFrames}

InitReshape ==
    /\ Batch
    /\ pc = "call"
    /\ build \in {"debug", "release"}
    /\ dataset \in ReshapeInputs
    /\ call \in {[fn |-> "transform", self |-> ReshapeTransform(rows)] :
                     rows \in 0..MaxReshape}
    /\ ret = NoRet
    /\ pipeline = << >>
    /\ step = 0
    /\ fs = << >>

NextReshape == CallTransform

SpecReshape == InitReshape /\ [][NextReshape]_vars

\* the (x, y) pairs of a matrix in raster order: down each frame, then
\* frame after frame
RasterPairs(data) ==
    [t \in 1..data.nrows * FrameCount(data) |->
        <<Cell(data, (t - 1) % data.nrows, 2 * ((t - 1) \div data.nrows)),
          Cell(data, (t - 1) % data.nrows, 2 * ((t - 1) \div data.nrows) + 1)>>]

\* R divides rows(D) * cols(D) / 2 exactly
DividesPairs(data, R) ==
    /\ R > 0
    /\ data.ncols % 2 = 0
    /\ (data.nrows * FrameCount(data)) % R = 0

Reshaped(R) ==
    /\ ret = Ok(Unit)
    /\ dataset.data.nrows = R
    /\ dataset.data.ncols % 2 = 0
    /\ RasterPairs(dataset.data) = RasterPairs(pipeline[1].data)
    /\ R = pipeline[1].data.nrows => dataset = pipeline[1]

Occurrences(pairs, p) == Cardinality({t \in 1..Len(pairs) : pairs[t] = p})

\* the values of the cells of a matrix
CellValues(data) ==
    {Cell(data, i, j) : i \in 0..data.nrows - 1, j \in 0..data.ncols - 1}

\* C27: whenever Reshape succeeds, every (x, y) pair of the input matrix
\* appears exactly once in the output matrix (as often as in the input), and
\* every output cell holds a value copied from the input: no pair is lost and
\* no cell is left at the zero it was initialised with.
C27_ReshapeKeepsEveryPair ==
    (pc = "done" /\ call.self.name = "ReshapeTransform" /\ ret = Ok(Unit))
    => /\ \A t \in 1..Len(RasterPairs(pipeline[1].data)) :
              Occurrences(RasterPairs(dataset.data), RasterPairs(pipeline[1].data)[t])
                  = Occurrences(RasterPairs(pipeline[1].data),
                                RasterPairs(pipeline[1].data)[t])
       /\ CellValues(dataset.data) \subseteq CellValues(pipeline[1].data)

\* 3 rows of one frame reshaped to 2 rows: 2 * 3 = 3 * 2 passes the check,
\* the loop copies two pairs, the third pair is lost and the third column
\* stays zero
C27_PairLost ==
    /\ pc = "done"
    /\ call.self = ReshapeTransform(2)
    /\ pipeline[1].data.cells = <<<<F(11), F(12)>>, <<F(21), F(22)>>, <<F(31), F(32)>>>>
    /\ ret = Ok(Unit)
    /\ dataset.data.cells = <<<<F(11), F(12), F(0)>>, <<F(21), F(22), F(0)>>>>

\* what the code does: no pair is lost when the row count divides the
\* number of pairs, i.e. when the reshaped matrix has an even number of columns
C27_EvenColumnsKeepEveryPair ==
    (/\ pc = "done"
     /\ call.self.name = "ReshapeTransform"
     /\ ret = Ok(Unit)
     /\ dataset.data.ncols % 2 = 0)
    => /\ RasterPairs(dataset.data) = RasterPairs(pipeline[1].data)
       /\ CellValues(dataset.data) = CellValues(pipeline[1].data)

C13_EmptyRefused ==
    /\ pc = "done"
    /\ call.self = ReshapeTransform(2)
    /\ pipeline[1].data.nrows = 0
    /\ ret.kind = "Err"

\* C14: Reshape returns an error value, does not crash and leaves the dataset
\* unchanged when the new row count is zero, and when the new row count does
\* not evenly divide the total element count.
C14_ReshapeErrors ==
    (/\ pc = "done"
     /\ call.self.name = "ReshapeTransform"
     /\ \/ Param(call.self, "rows:").v[1] = 0
        \/ (pipeline[1].data.nrows * pipeline[1].data.ncols)
              % Param(call.self, "rows:").v[1] # 0)
    => /\ ret.kind = "Err"
       /\ dataset = pipeline[1]

\* the second half of C14 alone: a row count above zero that does not
\* divide the element count
C14_NotDividingIsError ==
    (/\ pc = "done"
     /\ call.self.name = "ReshapeTransform"
     /\ Param(call.self, "rows:").v[1] > 0
     /\ (pipeline[1].data.nrows * pipeline[1].data.ncols)
           % Param(call.self, "rows:").v[1] # 0)
    => /\ ret.kind = "Err"
       /\ dataset = pipeline[1]

\* ---------------------------------------------- specification: normalize

\* lists of frame numbers from 0 to one behind the largest dataset
TargetLists == UNION {[1..n -> 0..MaxDummyFrames + 1] : n \in 0..MaxTargets}

\* Option<Vec<usize>>
Targets == {Null} \cup {Frames(ns) : ns \in TargetLists}

NormalizeFrames(xi, xj, target_frames) ==
    Transformer("NormalizeTransform", <<Fl(xi), xj, B(FALSE), target_frames, Null>>)

InitNormalize ==
    /\ Batch
    /\ pc = "call"
    /\ build \in {"debug", "release"}
    /\ dataset \in Dummies
    /\ call \in {[fn |-> "transform", self |-> NormalizeFrames(F(11), xj, ts)] :
                     xj \in {Null, Fl(F(40))}, ts \in Targets}
    /\ ret = NoRet
    /\ pipeline = << >>
    /\ step = 0
    /\ fs = << >>

NextNormalize == CallTransform

SpecNormalize == InitNormalize /\ [][NextNormalize]_vars

\* the divisor of frame k of the dataset the transformer was called on
Divisor(self, data, k) == normalize_norm(self, Frame(data, k)[1], Frame(data, k)[2]).val

Divided(ys, norm) == [i \in 1..Len(ys) |-> FDiv(ys[i], norm)]

\* C15: Normalize with target_frames = Some(F) divides the intensities of
\* exactly the frames in F by their divisor; the intensity column of every
\* frame not in F, and every x column, is unchanged.
C15_NormalizeTargets ==
    (/\ pc = "done"
     /\ call.self.name = "NormalizeTransform"
     /\ Param(call.self, "target_frames:") # Null
     /\ ret = Ok(Unit))
    => \A k \in 1..FrameCount(pipeline[1].data) :
           /\ Frame(dataset.data, k)[1] = Frame(pipeline[1].data, k)[1]
           /\ Frame(dataset.data, k)[2]
                = IF k \in SeqToSet(FrameList(call.self, "target_frames:"))
                  THEN Divided(Frame(pipeline[1].data, k)[2],
                               Divisor(call.self, pipeline[1].data, k))
                  ELSE Frame(pipeline[1].data, k)[2]

\* what the code does: every frame is divided, whatever target_frames holds
C15_NormalizeEveryFrame ==
    (/\ pc = "done"
     /\ call.self.name = "NormalizeTransform"
     /\ ret = Ok(Unit))
    => \A k \in 1..FrameCount(pipeline[1].data) :
           /\ Frame(dataset.data, k)[1] = Frame(pipeline[1].data, k)[1]
           /\ Frame(dataset.data, k)[2]
                = Divided(Frame(pipeline[1].data, k)[2],
                          Divisor(call.self, pipeline[1].data, k))

\* ------------------------------------------------- specification: offset
\* The transformer is built directly, or deserialized from a YAML text: the
\* text config_to_string writes for it, or that text with the key of the
\* target frames spelled target_scans as in the test of OffsetTransform.

OffsetTransform(offset, percentile, target_frames) ==
    Transformer("OffsetTransform", <<Fl(offset), B(percentile), target_frames>>)

OffsetPool ==
    {OffsetTransform(v, p, ts) : v \in {F(2), Half}, p \in BOOLEAN, ts \in Targets}

\* the transformers whose target frames serde_yaml::from_str of the model
\* reads back
Readable == {t \in OffsetPool : Param(t, "target_frames:") \in TypeDom("list_usize") \cup {Null}}

target_scans(yaml) == Replace(yaml, <<"target_frames:">>, <<"target_scans:">>)

NoTransformer == [name |-> "none", fields |-> << >>]

InitOffset ==
    /\ Batch
    /\ build \in {"debug", "release"}
    /\ dataset \in Dummies
    /\ \/ /\ pc = "call"
          /\ call \in {[fn |-> "transform", self |-> t, config |-> t, yaml |-> << >>] :
                           t \in OffsetPool}
       \/ /\ pc = "from_str"
          /\ call \in {[fn |-> "transform", self |-> NoTransformer, config |-> t,
                             yaml |-> config_to_string(t)] : t \in Readable}
                      \cup {[fn |-> "transform", self |-> NoTransformer, config |-> t,
                             yaml |-> target_scans(config_to_string(t))] : t \in Readable}
    /\ ret = NoRet
    /\ pipeline = << >>
    /\ step = 0
    /\ fs = << >>

\* the transformer is bound, or the test fails on unwrap
Deserialized(r) ==
    IF r.kind = "Ok"
    THEN call' = [call EXCEPT !.self = r.val] /\ pc' = "call" /\ ret' = ret
    ELSE call' = call /\ pc' = "failed" /\ ret' = r

\* let mut transform: OffsetTransform = serde_yaml::from_str(yaml_input).unwrap();
FromStr ==
    /\ pc = "from_str"
    /\ Deserialized(from_str(call.config.name, call.yaml))
    /\ UNCHANGED <<gui, build, run>>

NextOffset == FromStr \/ CallTransform

SpecOffset == InitOffset /\ [][NextOffset]_vars

Added(ys, v) == [i \in 1..Len(ys) |-> FAdd(ys[i], v)]

\* the configuration is an Offset with a fixed value and valid target frames
FixedOffset(config, data) ==
    /\ config.name = "OffsetTransform"
    /\ ~Param(config, "percentile:").v[1]
    /\ \/ Param(config, "target_frames:") = Null
       \/ ~InvalidFrames(data, FrameList(config, "target_frames:"))

\* frame k is a target of the configuration
Targeted(config, k) ==
    \/ Param(config, "target_frames:") = Null
    \/ k \in SeqToSet(FrameList(config, "target_frames:"))

OffsetApplied(config) ==
    /\ ret = Ok(Unit)
    /\ \A k \in 1..FrameCount(pipeline[1].data) :
           /\ Frame(dataset.data, k)[1] = Frame(pipeline[1].data, k)[1]
           /\ Frame(dataset.data, k)[2]
                = IF Targeted(config, k)
                  THEN Added(Frame(pipeline[1].data, k)[2], Param(config, "offset:").v)
                  ELSE Frame(pipeline[1].data, k)[2]

\* C16: an Offset with a fixed value v (percentile off) and a list F of valid
\* target frames, built directly or deserialized from its YAML text, adds
\* exactly v to every intensity of each frame in F and leaves every x column
\* and the intensities of the other frames unchanged; without a target list
\* it does so for all frames.
C16_OffsetTargets ==
    (pc \in {"done", "failed"} /\ FixedOffset(call.config, dataset.data))
    => pc = "done" /\ OffsetApplied(call.config)

\* the same for the transformers that are built directly or deserialized
\* from the text config_to_string writes
C16_OffsetTargetsOwnText ==
    (/\ pc \in {"done", "failed"}
     /\ FixedOffset(call.config, dataset.data)
     /\ call.yaml \in {<< >>, config_to_string(call.config)})
    => pc = "done" /\ OffsetApplied(call.config)

\* the YAML of the test: target_scans 1 and 3 of three frames, and the
\* intensities of frame 2 are offset as well
C16_TestFails ==
    /\ pc = "done"
    /\ call.config = OffsetTransform(F(2), FALSE, Frames(<<1, 3>>))
    /\ call.yaml = target_scans(config_to_string(call.config))
    /\ FrameCount(dataset.data) = 3
    /\ Frame(dataset.data, 2)[2] = Added(Frame(pipeline[1].data, 2)[2], F(2))

\* ----------------------------------------------- specification: subtract

SubtractTransform(subtrahend, minuends, direct) ==
    Transformer("SubtractTransform", <<U(subtrahend), minuends, B(direct)>>)

\* Option<Vec<usize>>: no list, or a list of up to MaxTargets frame numbers
Minuends == {Null} \cup {Frames(ns) : ns \in FrameLists}

InitSubtract ==
    /\ Batch
    /\ pc = "call"
    /\ build \in {"debug", "release"}
    /\ dataset \in Dummies
    /\ call \in {[fn |-> "transform", self |-> SubtractTransform(s, ms, d)] :
                     s \in 0..MaxDummyFrames + 1, ms \in Minuends, d \in BOOLEAN}
    /\ ret = NoRet
    /\ pipeline = << >>
    /\ step = 0
    /\ fs = << >>

NextSubtract == CallTransform

SpecSubtract == InitSubtract /\ [][NextSubtract]_vars

\* C17: Subtract fails with a validation error and leaves the dataset
\* unchanged whenever the subtrahend frame number is in the explicit list of
\* minuends, whatever else the list holds.
C17_SubtrahendAmongMinuends ==
    (/\ pc = "done"
     /\ call.self.name = "SubtractTransform"
     /\ Param(call.self, "minuends:") # Null
     /\ Param(call.self, "subtrahend:").v[1]
            \in SeqToSet(FrameList(call.self, "minuends:")))
    => /\ ret = Err("the minuend frames must not contain the subtrahend frame")
       /\ dataset = pipeline[1]

\* frame 1 is subtrahend and a minuend beside frame 2, both frames exist
C17_Witness ==
    /\ pc = "done"
    /\ call.self = SubtractTransform(1, Frames(<<2, 1>>), TRUE)
    /\ FrameCount(pipeline[1].data) = 3
    /\ ret.kind = "Err"
    /\ dataset = pipeline[1]

\* the numbers of the minuend frames: the listed ones, or every frame but the
\* subtrahend
MinuendNumbers(self, data) ==
    IF Param(self, "minuends:") # Null THEN SeqToSet(FrameList(self, "minuends:"))
    ELSE 1..FrameCount(data) \ {Param(self, "subtrahend:").v[1]}

\* frame k minus frame s: in direct mode the x column of frame k and its y
\* column minus the y column of s, otherwise the x column of s and the y
\* column of k resampled onto it minus the y column of s
MinuendMinusSubtrahend(data, k, s, direct) ==
    <<IF direct THEN Frame(data, k)[1] ELSE Frame(data, s)[1],
      [i \in 1..data.nrows |->
          FSub(IF direct THEN Frame(data, k)[2][i]
               ELSE linear_resample_array(Frame(data, k)[1], Frame(data, k)[2],
                                          Frame(data, s)[1])[i],
               Frame(data, s)[2][i])]>>

Differences(data, ks, s, direct) ==
    [n \in 1..Len(ks) |-> MinuendMinusSubtrahend(data, ks[n], s, direct)]

SubtractedFrames(self, data) ==
    Differences(data, Sorted(MinuendNumbers(self, data)),
                Param(self, "subtrahend:").v[1], Param(self, "direct:").v[1])

\* C28: after a successful Subtract the dataset holds exactly the minuend
\* frames (the listed ones, or all frames but the subtrahend when none are
\* listed), each once and in their original relative order, with y replaced
\* by minuend minus subtrahend; the subtrahend and every other frame are
\* gone, and in direct mode the x columns of the minuends are unchanged.
C28_SubtractKeepsMinuends ==
    (/\ pc = "done"
     /\ call.self.name = "SubtractTransform"
     /\ ret = Ok(Unit))
    => /\ MinuendNumbers(call.self, pipeline[1].data) \subseteq 1..FrameCount(pipeline[1].data)
       /\ Param(call.self, "subtrahend:").v[1] \notin MinuendNumbers(call.self, pipeline[1].data)
       /\ FramesOf(dataset.data) = SubtractedFrames(call.self, pipeline[1].data)
       /\ dataset.metadata = pipeline[1].metadata

\* a listed minuend is not a frame of the dataset, and Subtract succeeds
C28_ListedMinuendMissing ==
    /\ pc = "done"
    /\ call.self.name = "SubtractTransform"
    /\ ret = Ok(Unit)
    /\ ~(MinuendNumbers(call.self, pipeline[1].data) \subseteq 1..FrameCount(pipeline[1].data))

\* the same holds when no listed number reaches WrappingFrame
C28_KeepsMinuendsWithoutOverflow ==
    (/\ pc = "done"
     /\ call.self.name = "SubtractTransform"
     /\ ret = Ok(Unit)
     /\ WrappingFrame \notin MinuendNumbers(call.self, pipeline[1].data))
    => /\ MinuendNumbers(call.self, pipeline[1].data) \subseteq 1..FrameCount(pipeline[1].data)
       /\ Param(call.self, "subtrahend:").v[1] \notin MinuendNumbers(call.self, pipeline[1].data)
       /\ FramesOf(dataset.data) = SubtractedFrames(call.self, pipeline[1].data)
       /\ dataset.metadata = pipeline[1].metadata

\* two of three frames are listed in reverse order with a duplicate; both are
\* in the result, in increasing order
C28_ListedOutOfOrder ==
    /\ pc = "done"
    /\ call.self = SubtractTransform(2, Frames(<<3, 1>>), TRUE)
    /\ FrameCount(pipeline[1].data) = 3
    /\ ret = Ok(Unit)
    /\ FrameCount(dataset.data) = 2

\* --------------------------------------------------- specification: mask

MaxPairs == 2

MaskTransform(mask) == Transformer("MaskTransform", <<List(mask)>>)

\* (frame, pixel) pairs: 0, the frames and pixels of the largest dataset, and
\* the first number behind them
MaskPairs == {Pair(U(a), U(b)) : a \in 0..MaxDummyFrames + 1, b \in 0..MaxDummyRows + 1}

InitMask ==
    /\ Batch
    /\ pc = "call"
    /\ build \in {"debug", "release"}
    /\ dataset \in Dummies
    /\ call \in {[fn |-> "transform", self |-> MaskTransform(m)] :
                     m \in UNION {[1..n -> MaskPairs] : n \in 0..MaxPairs}}
    /\ ret = NoRet
    /\ pipeline = << >>
    /\ step = 0
    /\ fs = << >>

NextMask == CallTransform

SpecMask == InitMask /\ [][NextMask]_vars

\* the (frame, pixel) pairs of the transformer, 1-based as the user writes them
MaskedPairs(self) ==
    {<<Param(self, "mask:").v[i].v[1].v[1], Param(self, "mask:").v[i].v[2].v[1]>> :
        i \in 1..Len(Param(self, "mask:").v)}

\* the frames in which pixel b of the dataset is masked
MaskedFrames(self, data, b) ==
    {a \in 1..FrameCount(data) : <<a, b>> \in MaskedPairs(self)}

\* the mean of pixel b over the frames in which it is not masked
UnmaskedMean(self, data, b) ==
    FDiv(Sum([k \in 1..Len(Sorted((1..FrameCount(data)) \ MaskedFrames(self, data, b))) |->
                 Frame(data, Sorted((1..FrameCount(data)) \ MaskedFrames(self, data, b))[k])[2][b]]),
         F(FrameCount(data) - Cardinality(MaskedFrames(self, data, b))))

\* the matrix the claim describes
MaskExpected(self, data) ==
    Array2(data.nrows, data.ncols,
           LAMBDA i, j : IF /\ j % 2 = 1
                            /\ (j + 1) \div 2 \in MaskedFrames(self, data, i + 1)
                            /\ MaskedFrames(self, data, i + 1) # 1..FrameCount(data)
                         THEN UnmaskedMean(self, data, i + 1)
                         ELSE Cell(data, i, j))

\* C18: for every list of (frame, pixel) pairs, pairs with frame 0, pixel 0
\* or numbers beyond the dataset included, Mask completes without error or
\* crash: an out-of-range pair changes nothing, an in-range masked cell holds
\* the mean of the intensities of the unmasked frames at that pixel, a pixel
\* masked in every frame is unchanged, and every other cell keeps its value.
C18_MaskCompletes ==
    (pc = "done" /\ call.self.name = "MaskTransform")
    => /\ ret = Ok(Unit)
       /\ dataset.data = MaskExpected(call.self, pipeline[1].data)

\* the same in a release build, and in a debug build without a 0 in a pair
C18_MaskWithoutOverflow ==
    (/\ pc = "done"
     /\ call.self.name = "MaskTransform"
     /\ \/ build = "release"
        \/ \A p \in MaskedPairs(call.self) : p[1] # 0 /\ p[2] # 0)
    => /\ ret = Ok(Unit)
       /\ dataset.data = MaskExpected(call.self, pipeline[1].data)

\* a debug build panics on the pair (0, 1)
C18_Panics ==
    /\ pc = "done"
    /\ call.self = MaskTransform(<<Pair(U(0), U(1))>>)
    /\ ret.kind = "Panic"

\* ----------------------------------------------- specification: integrate

MaxBounds == 2

IntegrateBounds(bounds, local_baseline) ==
    Transformer("IntegrateTransform", <<List(bounds), B(local_baseline)>>)

\* windows inside the x range of a dummy, across its end, and outside of it
BoundsPool == {Pair(Fl(F(11)), Fl(F(31))), Pair(Fl(F(40)), Fl(F(21))), Pair(Fl(F(50)), Fl(F(60)))}

IntegrateInputs ==
    {Dataset(new_test_dummy(rows, 2 * frames), << >>, << >>) :
        rows \in 1..MaxRows, frames \in 1..MaxFrames}

InitIntegrate ==
    /\ Batch
    /\ pc = "call"
    /\ build \in {"debug", "release"}
    /\ dataset \in IntegrateInputs
    /\ call \in {[fn |-> "transform", self |-> IntegrateBounds(bs, lb)] :
                     bs \in UNION {[1..n -> BoundsPool] : n \in 0..MaxBounds},
                     lb \in BOOLEAN}
    /\ ret = NoRet
    /\ pipeline = << >>
    /\ step = 0
    /\ fs = << >>

NextIntegrate == CallTransform

SpecIntegrate == InitIntegrate /\ [][NextIntegrate]_vars

\* trapz of frame i (1-based) over bound j (0-based)
Integral(self, data, i, j) ==
    trapz(Frame(data, i)[1], Frame(data, i)[2],
          Param(self, "bounds:").v[j + 1].v[1].v, Param(self, "bounds:").v[j + 1].v[2].v,
          Param(self, "local_baseline:").v[1])

\* C20: on a dataset with N frames and B bounds Integrate replaces the matrix
\* by an N x 2B matrix whose row of frame i (1-based) holds, for bound j
\* (0-based), i in column 2j and trapz of frame i over bound j in column
\* 2j + 1; if the integral of any frame over any bound fails, Integrate
\* fails and the matrix of the dataset is unchanged.
C20_IntegrateMatrix ==
    (pc = "done" /\ call.self.name = "IntegrateTransform")
    => IF \E i \in 1..FrameCount(pipeline[1].data) :
             \E j \in 0..Len(Param(call.self, "bounds:").v) - 1 :
                 Integral(call.self, pipeline[1].data, i, j).kind # "Ok"
       THEN ret.kind = "Err" /\ dataset = pipeline[1]
       ELSE /\ ret = Ok(Unit)
            /\ dataset.data.nrows = FrameCount(pipeline[1].data)
            /\ dataset.data.ncols = 2 * Len(Param(call.self, "bounds:").v)
            /\ \A i \in 1..FrameCount(pipeline[1].data) :
                   \A j \in 0..Len(Param(call.self, "bounds:").v) - 1 :
                       /\ Cell(dataset.data, i - 1, 2 * j) = F(i)
                       /\ Cell(dataset.data, i - 1, 2 * j + 1)
                            = Integral(call.self, pipeline[1].data, i, j).val

\* two frames of three points and two bounds: a 2 x 4 matrix that holds
\* what trapz returns for frame 1 (270) and frame 2 (224) over the first bound
C20_Witness ==
    /\ pc = "done"
    /\ call.self = IntegrateBounds(<<Pair(Fl(F(11)), Fl(F(31))), Pair(Fl(F(40)), Fl(F(21)))>>, FALSE)
    /\ pipeline[1].data.nrows = 3
    /\ FrameCount(pipeline[1].data) = 2
    /\ ret = Ok(Unit)
    /\ dataset.data.nrows = 2
    /\ dataset.data.ncols = 4
    /\ Cell(dataset.data, 1, 0) = F(2)
    /\ Cell(dataset.data, 0, 1) = F(270)
    /\ Cell(dataset.data, 1, 1) = F(224)

\* one of two integrals fails: Integrate fails and the matrix is the same
C20_WitnessFailure ==
    /\ pc = "done"
    /\ call.self = IntegrateBounds(<<Pair(Fl(F(11)), Fl(F(31))), Pair(Fl(F(50)), Fl(F(60)))>>, FALSE)
    /\ pipeline[1].data.nrows = 3
    /\ ret.kind = "Err"
    /\ dataset = pipeline[1]

\* ------------------------------------------------ specification: finning

MaxFinningFrames == 4

MaxIterations == 2

FinningTransform(threshold, iterations) ==
    Transformer("FinningTransform", <<Fl(threshold), U(iterations)>>)

\* intensities: a background of 0 and 1 and a spike of 9
Spikes == {0, 1, 9}

\* one or two rows of 2 .. MaxFinningFrames frames; the x axis holds the
\* number of the row
FinningShapes == {<<1, frames>> : frames \in 2..MaxFinningFrames} \cup {<<2, 3>>}

FinningInputs ==
    UNION {{Dataset(Array2(shape[1], 2 * shape[2],
                           LAMBDA i, j : IF j % 2 = 0 THEN F(i)
                                         ELSE F(ys[i + 1][(j + 1) \div 2])),
                    << >>, << >>) :
               ys \in [1..shape[1] -> [1..shape[2] -> Spikes]]} :
           shape \in FinningShapes}

InitFinning ==
    /\ Batch
    /\ pc = "call"
    /\ build \in {"debug", "release"}
    /\ dataset \in FinningInputs
    /\ call \in {[fn |-> "transform", self |-> FinningTransform(threshold, iterations)] :
                     threshold \in {F(0), F(1), Half}, iterations \in 0..MaxIterations}
    /\ ret = NoRet
    /\ pipeline = << >>
    /\ step = 0
    /\ fs = << >>

NextFinning == CallTransform

SpecFinning == InitFinning /\ [][NextFinning]_vars

\* the replacement steps Finning performs on row i of the matrix
Steps(self, data, i) ==
    finning_while(Param(self, "threshold:").v, Param(self, "iterations:").v[1],
                  SubSeq(intensities(data, i), 1, data.ncols \div 2), 0).steps

\* C19: for every pixel row Finning performs at most `iterations`
\* replacement steps, none when `iterations` is 0, and its loop terminates;
\* with fewer than 3 frames Finning fails and the dataset is unchanged.
C19_FinningIterations ==
    (pc = "done" /\ call.self.name = "FinningTransform")
    => IF FrameCount(pipeline[1].data) < 3
       THEN ret.kind = "Err" /\ dataset = pipeline[1]
       ELSE /\ ret = Ok(Unit)
            /\ \A i \in 0..pipeline[1].data.nrows - 1 :
                   Steps(call.self, pipeline[1].data, i) <= Param(call.self, "iterations:").v[1]
            /\ Param(call.self, "iterations:").v[1] = 0 => dataset = pipeline[1]

\* what the code does: one replacement more than `iterations` at most
C19_OneMoreIteration ==
    (pc = "done" /\ call.self.name = "FinningTransform")
    => IF FrameCount(pipeline[1].data) < 3
       THEN ret.kind = "Err" /\ dataset = pipeline[1]
       ELSE /\ ret = Ok(Unit)
            /\ \A i \in 0..pipeline[1].data.nrows - 1 :
                   Steps(call.self, pipeline[1].data, i)
                       <= Param(call.self, "iterations:").v[1] + 1

\* with iterations = 0 the spike of the row (0, 0, 9) is replaced by the median
C19_ReplacedAtZero ==
    /\ pc = "done"
    /\ call.self = FinningTransform(F(1), 0)
    /\ intensities(pipeline[1].data, 0) = <<F(0), F(0), F(9)>>
    /\ intensities(dataset.data, 0) = <<F(0), F(0), F(0)>>

\* ------------------------------------------ specification: mirror_index

MaxElems == 8

\* the widest window of despike: 7 x 7 reaches 3 cells beyond the array
Reach == 7 \div 2

\* arrays of 2 .. MaxElems elements and every index a 7 x 7 window reads
InitMirror ==
    /\ Batch
    /\ pc = "call"
    /\ build \in {"debug", "release"}
    /\ call \in {c \in [fn : {"mirror_index"}, idx : -Reach..MaxElems + Reach - 1,
                        num_elem : 2..MaxElems] : c.idx <= c.num_elem + Reach - 1}
    /\ ret = NoRet
    /\ dataset = NoDataset
    /\ pipeline = << >>
    /\ step = 0
    /\ fs = << >>

CallMirrorIndex ==
    /\ pc = "call"
    /\ call.fn = "mirror_index"
    /\ ret' = Ok(mirror_index(call.idx, call.num_elem))
    /\ pc' = "done"
    /\ UNCHANGED <<gui, build, call, dataset, pipeline, step, fs>>

NextMirror == CallMirrorIndex

SpecMirror == InitMirror /\ [][NextMirror]_vars

\* C23: for every length n >= 2 the boundary indexer maps -1 to 0 and n to
\* n - 1, reflects symmetrically at both ends (-1 - k to k and n + k to
\* n - 1 - k), and maps every index of a 7 x 7 window into 0 .. n - 1.
C23_MirrorIndex ==
    (pc = "done" /\ call.fn = "mirror_index")
    => /\ call.idx = -1 => ret.val = 0
       /\ call.idx = call.num_elem => ret.val = call.num_elem - 1
       /\ \A k \in 0..call.num_elem - 1 :
              /\ call.idx = -1 - k => ret.val = k
              /\ call.idx = call.num_elem + k => ret.val = call.num_elem - 1 - k
       /\ ret.val \in 0..call.num_elem - 1

\* what the code does: below 0 it reflects about the element 0 without
\* repeating it (-k to k % n), above n - 1 it repeats the last element
\* (n + k to n - 1 - k % n); every window index lands inside the array
C23_ReflectsAboutZero ==
    (pc = "done" /\ call.fn = "mirror_index")
    => /\ call.idx <= 0 => ret.val = (-call.idx) % call.num_elem
       /\ call.idx >= call.num_elem
              => ret.val = call.num_elem - 1 - ((call.idx - call.num_elem) % call.num_elem)
       /\ call.idx \in 0..call.num_elem - 1 => ret.val = call.idx
       /\ ret.val \in 0..call.num_elem - 1

\* the index -1 of an array of two elements is mapped to 1
C23_MinusOneToOne ==
    /\ pc = "done"
    /\ call.fn = "mirror_index"
    /\ call.idx = -1
    /\ call.num_elem = 2
    /\ ret = Ok(1)

\* ----------------------------------------- specification: median_filter

MaxLevel == 2

\* the matrix of tests::test_median_filter
TestImage == Array2(3, 3, LAMBDA i, j : IF i = 1 /\ j = 1 THEN F(2) ELSE F(1))

\* every 2 x 2 matrix and every row of three cells over 0 .. MaxLevel, and
\* the matrix of the test
Images ==
    {Array2(2, 2, LAMBDA i, j : F(v[2 * i + j + 1])) : v \in [1..4 -> 0..MaxLevel]}
        \cup {Array2(1, 3, LAMBDA i, j : F(v[j + 1])) : v \in [1..3 -> 0..MaxLevel]}
        \cup {TestImage}

InitMedian ==
    /\ Batch
    /\ pc = "call"
    /\ build = "debug"
    /\ call \in [fn : {"median_filter"}, input : Images, window_size : {3, 5, 7}]
    /\ ret = NoRet
    /\ dataset = NoDataset
    /\ pipeline = << >>
    /\ step = 0
    /\ fs = << >>

CallMedianFilter ==
    /\ pc = "call"
    /\ call.fn = "median_filter"
    /\ ret' = Ok(median_filter(call.input, call.window_size))
    /\ pc' = "done"
    /\ UNCHANGED <<gui, build, call, dataset, pipeline, step, fs>>

NextMedian == CallMedianFilter

SpecMedian == InitMedian /\ [][NextMedian]_vars

\* the element of 0-based rank `rank` of the sorted values of the mirrored
\* neighbourhood of the cell (i, j)
Ranked(input, i, j, window_size, rank) ==
    At(SortSeq(median_window(input, i, j, window_size), FLt), rank)

\* C22: for each window size w in {3, 5, 7} and every input matrix,
\* median_filter writes to each output cell the element of 0-based rank
\* (w * w - 1) / 2 of the sorted w * w values of the cell's mirrored
\* neighbourhood, the true median of the window.
C22_MedianOfWindow ==
    (pc = "done" /\ call.fn = "median_filter")
    => /\ ret.val.nrows = call.input.nrows
       /\ ret.val.ncols = call.input.ncols
       /\ \A i \in 0..call.input.nrows - 1, j \in 0..call.input.ncols - 1 :
              Cell(ret.val, i, j)
                  = Ranked(call.input, i, j, call.window_size,
                           (call.window_size * call.window_size - 1) \div 2)

\* what the code does: the element of rank w / 2 of the sorted window, the
\* second smallest of 9, the third smallest of 25, the fourth smallest of 49
C22_RankHalfWindowSize ==
    (pc = "done" /\ call.fn = "median_filter")
    => /\ ret.val.nrows = call.input.nrows
       /\ ret.val.ncols = call.input.ncols
       /\ \A i \in 0..call.input.nrows - 1, j \in 0..call.input.ncols - 1 :
              Cell(ret.val, i, j)
                  = Ranked(call.input, i, j, call.window_size, call.window_size \div 2)

\* the 3 x 3 filter of the row (0, 2, 2) returns (0, 0, 2): the windows of
\* the first two cells hold three times 0 and six times 2, median 2
C22_SecondSmallest ==
    /\ pc = "done"
    /\ call.fn = "median_filter"
    /\ call.window_size = 3
    /\ call.input = Array2(1, 3, LAMBDA i, j : IF j = 0 THEN F(0) ELSE F(2))
    /\ ret.val.cells = <<<<F(0), F(0), F(2)>>>>

\* the test of the repository is reached: every cell of its output is 1
C22_TestImageFiltered ==
    /\ pc = "done"
    /\ call.fn = "median_filter"
    /\ call.window_size = 3
    /\ call.input = TestImage
    /\ ret.val = Array2(3, 3, LAMBDA i, j : F(1))

\* ---------------------------------------------- specification: despike

MaxDespikeFrames == 3

DespikeTransform(siglim, flim) ==
    Transformer("DespikeTransform", <<Fl(siglim), Fl(flim)>>)

\* intensities: a background of 0 and cosmic rays of 64 counts; with the
\* read noise of 6 the noise of both is a whole number (6 and 10)
Counts == {0, 64}

\* one row of 1 or 2 frames and two rows of 1 .. MaxDespikeFrames frames;
\* the x axis holds the number of the row
DespikeShapes == ({1, 2} \X (1..MaxDespikeFrames)) \ {<<1, 3>>}

DespikeInputs ==
    {NoDataset} \cup
    UNION {{Dataset(Array2(shape[1], 2 * shape[2],
                           LAMBDA i, j : IF j % 2 = 0 THEN F(i)
                                         ELSE F(ys[i + 1][(j + 1) \div 2])),
                    << >>, << >>) :
               ys \in [1..shape[1] -> [1..shape[2] -> Counts]]} :
           shape \in DespikeShapes}

InitDespike ==
    /\ Batch
    /\ pc = "call"
    /\ build = "release"
    /\ dataset \in DespikeInputs
    /\ call \in {[fn |-> "transform", self |-> DespikeTransform(siglim, F(1))] :
                     siglim \in {F(1), F(50)}}
    /\ ret = NoRet
    /\ pipeline = << >>
    /\ step = 0
    /\ fs = << >>

NextDespike == CallTransform

SpecDespike == InitDespike /\ [][NextDespike]_vars

\* the intensity columns of a matrix, side by side
Intensities(data) ==
    Array2(data.nrows, data.ncols \div 2, LAMBDA i, j : Cell(data, i, 2 * j + 1))

\* the cells flagged as cosmic rays in one iteration on the image `input`
FlaggedIn(self, input) ==
    despike_iteration([input_data |-> input, data_mask |-> {}],
                      Param(self, "siglim:").v, Param(self, "flim:").v, F(1), F(6)).data_mask

\* from the image `input` to the image `output` one iteration gives the
\* flagged cells the 3 x 3 median of `input` and leaves the other cells
OnlyFlaggedReplaced(input, output, flagged, median) ==
    /\ output.nrows = input.nrows
    /\ output.ncols = input.ncols
    /\ \A i \in 0..input.nrows - 1, j \in 0..input.ncols - 1 :
           Cell(output, i, j) = IF <<i, j>> \in flagged THEN Cell(median, i, j)
                                ELSE Cell(input, i, j)

RECURSIVE Iterated(_, _, _, _)
IteratedFrom(self, input, output, iter, final) ==
    /\ OnlyFlaggedReplaced(input, output, FlaggedIn(self, input), median_filter(input, 3))
    /\ Iterated(self, output, iter - 1, final)

\* `final` is the image after `iter` iterations from `input`, each of which
\* replaces the cells it flags and no others
Iterated(self, input, iter, final) ==
    IF iter = 0 THEN computed(input) = computed(final)
    ELSE IteratedFrom(self, input,
                      despike_iteration([input_data |-> input, data_mask |-> {}],
                                        Param(self, "siglim:").v, Param(self, "flim:").v,
                                        F(1), F(6)).input_data,
                      iter, final)

XColumns(data) == {j \in 0..data.ncols - 1 : j % 2 = 0}

C21_WitnessFailure ==
    /\ pc = "done"
    /\ call.self.name = "DespikeTransform"
    /\ FrameCount(pipeline[1].data) = 1
    /\ ret.kind = "Err"
    /\ dataset = pipeline[1]

\* ------------------------------------------ specification: OptAlignment

MaxPoints == 3

\* intensities of both signs
Heights == {-1, 2}

\* the frames of 1 .. MaxPoints points
FramesOfPoints == UNION {[1..len -> {F(h) : h \in Heights}] : len \in 1..MaxPoints}

\* OptAlignment::new accepts frames of equal length only
InitAlign ==
    /\ Batch
    /\ pc = "call"
    /\ build = "debug"
    /\ call \in {c \in [fn : {"cost"}, frame_a : FramesOfPoints, frame_b : FramesOfPoints,
                        param : {F(0), F(1), F(-1), Half}] :
                     Len(c.frame_a) = Len(c.frame_b)}
    /\ ret = NoRet
    /\ dataset = NoDataset
    /\ pipeline = << >>
    /\ step = 0
    /\ fs = << >>

CallCost ==
    /\ pc = "call"
    /\ call.fn = "cost"
    /\ ret' = Ok(cost(call.frame_a, call.frame_b, call.param))
    /\ pc' = "done"
    /\ UNCHANGED <<gui, build, call, dataset, pipeline, step, fs>>

NextAlign == CallCost

SpecAlign == InitAlign /\ [][NextAlign]_vars

\* the positions of the points of a frame
PointGrid(len) == [x \in 1..len |-> F(x)]

\* the frame resampled on its own grid after shifting it by dx
ShiftedFrame(frame, dx) ==
    linear_resample_array([k \in 1..Len(frame) |-> FAdd(F(k), dx)], frame,
                          PointGrid(Len(frame)))

\* the sum of the terms that are not NaN
RECURSIVE SumWithoutNaN(_)
SumWithoutNaN(terms) ==
    IF terms = << >> THEN F(0)
    ELSE IF IsNaN(terms[1]) THEN SumWithoutNaN(Tail(terms))
    ELSE FAdd(terms[1], SumWithoutNaN(Tail(terms)))

Products(a, b) == [i \in 1..Len(a) |-> FMul(a[i], b[i])]

\* C24: for frames of equal length and any shift dx the alignment cost is
\* the negative sum of ref[i] * shifted[i] over all points of the frame but
\* the NaN terms, shifted being the frame resampled after shifting by dx;
\* at dx = 0 it is the negative sum of ref[i] * frame[i] over every point.
C24_CostIsNegativeSum ==
    (pc = "done" /\ call.fn = "cost")
    => /\ ret.val = FNeg(SumWithoutNaN(Products(call.frame_a,
                                                ShiftedFrame(call.frame_b, call.param))))
       /\ call.param = F(0)
              => ret.val = FNeg(SumWithoutNaN(Products(call.frame_a, call.frame_b)))

AbsoluteProducts(a, b) == [i \in 1..Len(b) |-> FAbs(FMul(a[i], b[i]))]

\* what the code does: the grid is 1 .. len - 1, so the last point of both
\* frames is left out, and the terms are the absolute values of the products
C24_AbsoluteWithoutLast ==
    (pc = "done" /\ call.fn = "cost")
    => /\ ret.val = FNeg(SumWithoutNaN(AbsoluteProducts(
                        call.frame_a,
                        ShiftedFrame(SubSeq(call.frame_b, 1, Len(call.frame_b) - 1),
                                     call.param))))
       /\ (call.param = F(0) /\ Len(call.frame_a) > 2)
              => ret.val = FNeg(SumWithoutNaN(AbsoluteProducts(
                               call.frame_a,
                               SubSeq(call.frame_b, 1, Len(call.frame_b) - 1))))

\* ref = frame = (2, 2, 2) at dx = 0: the cost is -8, not -12
C24_LastPointLeftOut ==
    /\ pc = "done"
    /\ call.fn = "cost"
    /\ call.frame_a = <<F(2), F(2), F(2)>>
    /\ call.frame_b = <<F(2), F(2), F(2)>>
    /\ call.param = F(0)
    /\ ret = Ok(F(-8))

\* ref = (2, 2, 2), frame = (-1, -1, -1) at dx = 0: the cost is -4, not 6
C24_NegativeProduct ==
    /\ pc = "done"
    /\ call.fn = "cost"
    /\ call.frame_a = <<F(2), F(2), F(2)>>
    /\ call.frame_b = <<F(-1), F(-1), F(-1)>>
    /\ call.param = F(0)
    /\ ret = Ok(F(-4))

\* ------------------------------------------- specification: command line

MaxArgs == 2

\* the words of a command line: every subcommand, the name of the match arm
\* no subcommand has, and an option
Words == SeqToSet(COMMANDS) \cup {"calibrate", "-d"}

\* command lines of up to MaxArgs words, and the longer ones of three
\* subcommands
ArgLists ==
    UNION {[1..n -> Words] : n \in 0..MaxArgs}
        \cup [1..MaxArgs + 1 -> {"average", "calibration", "default"}]

InitCli ==
    /\ Batch
    /\ pc = "call"
    /\ build \in {"debug", "release"}
    /\ dataset = NoDataset
    /\ call \in {[fn |-> "get_pipeline", args_raw |-> <<"rustman">> \o words] :
                     words \in ArgLists}
    /\ ret = NoRet
    /\ pipeline = << >>
    /\ step = 0
    /\ fs = << >>

\* main: Preprocessor::from_cli_args().get_pipeline()
CallGetPipeline ==
    /\ pc = "call"
    /\ call.fn = "get_pipeline"
    /\ ret' = Ok(get_pipeline(call.args_raw))
    /\ pc' = "done"
    /\ UNCHANGED <<gui, build, call, dataset, pipeline, step, fs>>

NextCli == CallGetPipeline

SpecCli == InitCli /\ [][NextCli]_vars

\* the subcommands that name a transform
TransformCommands == SeqToSet(COMMANDS) \ {"gui", "plot", "default"}

\* what a transformer of a pipeline was made from: the sublist it was parsed
\* from, or the default transformer it is
MadeFrom(trnsf) ==
    IF "argv" \in DOMAIN trnsf THEN [parsed |-> trnsf.argv] ELSE [default |-> trnsf]

\* one transformer for every sublist of a transform subcommand, the six
\* default transformers for every default, in order
RECURSIVE OnePerGroup(_, _)
OnePerGroup(cli_args, i) ==
    IF i > Len(cli_args) THEN << >>
    ELSE (IF cli_args[i][1] \in TransformCommands THEN <<[parsed |-> cli_args[i]]>>
          ELSE IF cli_args[i][1] = "default"
          THEN [k \in 1..Len(default_transformations) |->
                   [default |-> default_transformations[k]]]
          ELSE << >>)
         \o OnePerGroup(cli_args, i + 1)

PipelineMadeFrom(transformations) ==
    [k \in 1..Len(transformations) |-> MadeFrom(transformations[k])]

\* C30: Pipeline::from_cli_args yields one transformer for every argument
\* group whose first word is a transform subcommand of COMMANDS (all but gui,
\* plot and default), in command-line order, drops none of them, and default
\* adds the six default transformers without discarding the transformers
\* listed before it.
C30_OneTransformerPerGroup ==
    (/\ pc = "done"
     /\ call.fn = "get_pipeline")
    => PipelineMadeFrom(ret.val) = OnePerGroup(subcommand_args(call.args_raw), 1)

\* a transformer listed before default is not in the pipeline
C30_DefaultDiscards ==
    /\ pc = "done"
    /\ call.fn = "get_pipeline"
    /\ call.args_raw = <<"rustman", "average", "default">>
    /\ ret.val = default_transformations

\* the subcommand calibration yields no transformer
C30_CalibrationDropped ==
    /\ pc = "done"
    /\ call.fn = "get_pipeline"
    /\ call.args_raw = <<"rustman", "calibration", "average">>
    /\ Len(ret.val) = 1

\* without calibration, and with default only as the first subcommand, the
\* pipeline is the one the claim describes
C30_OnePerGroupOtherwise ==
    (/\ pc = "done"
     /\ call.fn = "get_pipeline"
     /\ "calibration" \notin SeqToSet(call.args_raw)
     /\ \A i \in 2..Len(subcommand_args(call.args_raw)) :
            subcommand_args(call.args_raw)[i][1] # "default")
    => PipelineMadeFrom(ret.val) = OnePerGroup(subcommand_args(call.args_raw), 1)

\* ---------------------------------------- specification: standard input

MaxChunks == 2

\* what standard input holds: the chunks a read returns one at a time, and
\* what follows the last chunk: the end of the input, a read error, or
\* nothing (a stream that stays open)
Stdins ==
    [chunks : UNION {[1..n -> {<<"1", ",", "2">>, <<NL>>}] : n \in 0..MaxChunks},
     ending : {"eof", "error", "open"}]

\* std::sync::mpsc::channel: the messages in flight, and whether the receiver
\* is alive
channel == [queue |-> << >>, rx |-> TRUE]

\* rx.try_recv()
try_recv(ch) == IF ch.queue = << >> THEN Err("receiving on an empty channel") ELSE Ok(Head(ch.queue))

\* tx.send(input_string), as the Result it returns and the channel behind it
send(ch, input_string) ==
    IF ch.rx THEN Left(Ok(Unit), [ch EXCEPT !.queue = Append(@, input_string)])
    ELSE Left(Err("sending on a closed channel"), ch)

\* a version of read_done that reports the end of the input one chunk early
read_done_early(stdin) == Len(stdin.chunks) <= 1 /\ stdin.ending = "eof"

\* read_to_string returns Ok at the end of the input, and not before
read_done(stdin) == stdin.chunks = << >> /\ stdin.ending = "eof"

\* the whole of what standard input holds
Complete(stdin) == Concat(stdin.chunks)

InitStdin ==
    /\ pc = "spawn"
    /\ build \in {"debug", "release"}
    /\ call \in {[fn |-> "input_data_to_string", filepath |-> Null, stdin |-> s,
                  input_string |-> << >>, polled |-> "no"] : s \in Stdins}
    /\ ret = NoRet
    /\ dataset = NoDataset
    /\ pipeline = << >>
    /\ step = 0
    /\ fs = << >>
    /\ app = << >>
    /\ chan = << >>
    /\ thread = << >>

\* let (tx, rx) = channel(); std::thread::spawn(..)
Spawn ==
    /\ pc = "spawn"
    /\ chan' = channel
    /\ thread' = [pc |-> "read", input_string |-> << >>, stdin |-> call.stdin,
                  stderr |-> << >>, sent |-> FALSE]
    /\ pc' = "sleep"
    /\ UNCHANGED <<app, build, call, ret, dataset, pipeline, step, fs>>

\* std::thread::sleep(Duration::from_millis(100)) returns
Wake ==
    /\ pc = "sleep"
    /\ pc' = "poll"
    /\ UNCHANGED <<gui, build, call, ret, dataset, pipeline, step, fs>>

\* if let Ok(s) = rx.try_recv() { input_string = s }; polled notes whether
\* the reader had sent by then
TryRecv ==
    /\ pc = "poll"
    /\ call' = [call EXCEPT
                   !.input_string = IF try_recv(chan).kind = "Ok" THEN try_recv(chan).val
                                    ELSE @,
                   !.polled = IF thread.sent THEN "after send" ELSE "before send"]
    /\ chan' = [chan EXCEPT !.queue = IF @ = << >> THEN @ ELSE Tail(@)]
    /\ pc' = "return"
    /\ UNCHANGED <<app, thread, build, ret, dataset, pipeline, step, fs>>

\* Ok(input_string): rx goes out of scope, and what the channel holds with it
Return ==
    /\ pc = "return"
    /\ ret' = Ok(call.input_string)
    /\ chan' = [queue |-> << >>, rx |-> FALSE]
    /\ pc' = "done"
    /\ UNCHANGED <<app, thread, build, call, dataset, pipeline, step, fs>>

\* read_to_string reads the next chunk of standard input
ReaderRead ==
    /\ thread # << >>
    /\ thread.pc = "read"
    /\ thread.stdin.chunks # << >>
    /\ ~read_done(thread.stdin)
    /\ thread' = [thread EXCEPT !.input_string = @ \o Head(thread.stdin.chunks),
                                !.stdin.chunks = Tail(@)]
    /\ UNCHANGED <<app, chan, pc, build, call, ret, dataset, pipeline, step, fs>>

\* read_to_string returns Ok(_)
ReaderOk ==
    /\ thread # << >>
    /\ thread.pc = "read"
    /\ read_done(thread.stdin)
    /\ thread' = [thread EXCEPT !.pc = "send"]
    /\ UNCHANGED <<app, chan, pc, build, call, ret, dataset, pipeline, step, fs>>

\* read_to_string returns Err(_): the warning is printed and String::new()
\* is what will be sent
ReaderErr ==
    /\ thread # << >>
    /\ thread.pc = "read"
    /\ thread.stdin.chunks = << >>
    /\ thread.stdin.ending = "error"
    /\ thread' = [thread EXCEPT
                     !.pc = "send",
                     !.input_string = << >>,
                     !.stderr = Append(@, "WARNING: could not read data from STDIN, proceeding with empty input data.")]
    /\ UNCHANGED <<app, chan, pc, build, call, ret, dataset, pipeline, step, fs>>

\* tx.send(..).unwrap_or_else(|e| eprintln!("ERROR: {e}")), and the end of
\* the thread
ReaderSend ==
    /\ thread # << >>
    /\ thread.pc = "send"
    /\ chan' = send(chan, thread.input_string).ds
    /\ thread' = [thread EXCEPT
                     !.pc = "exit",
                     !.sent = send(chan, thread.input_string).r.kind = "Ok",
                     !.stderr = IF send(chan, thread.input_string).r.kind = "Ok" THEN @
                                ELSE Append(@, "ERROR: sending on a closed channel")]
    /\ UNCHANGED <<app, pc, build, call, ret, dataset, pipeline, step, fs>>

\* the steps of the thread that called input_data_to_string
MainStep == Spawn \/ Wake \/ TryRecv \/ Return

\* the steps of the spawned reader
ReaderStep == ReaderRead \/ ReaderOk \/ ReaderErr \/ ReaderSend

NextStdin == MainStep \/ ReaderStep

SpecStdin == InitStdin /\ [][NextStdin]_vars

\* no step of the calling thread waits for another thread: spawn, a sleep of
\* 100 ms, try_recv and the return all end by themselves. The reader gets no
\* fairness: its read may block for ever.
SpecStdinFair == SpecStdin /\ WF_vars(MainStep)

\* what input_data_to_string returns: the complete input if the reader had
\* sent it when the channel was polled, otherwise the empty string
StdinResult ==
    pc = "done"
    => ret = Ok(IF call.polled = "after send" /\ call.stdin.ending = "eof"
                THEN Complete(call.stdin) ELSE << >>)

\* neither thread waits for the other or panics: a reader that has read its
\* input can send, whatever the calling thread has done
StdinNeverBlocks ==
    /\ ret.kind # "Panic"
    /\ (thread # << >> /\ thread.pc = "send") => ENABLED ReaderSend
    /\ (pc \notin {"done"}) => ENABLED MainStep

\* a delivery after the poll changes nothing of what was returned
StdinLateDeliveryDiscarded ==
    (/\ pc = "done"
     /\ thread.pc = "exit"
     /\ call.polled = "before send")
    => /\ ret = Ok(<< >>)
       /\ chan.queue = << >>

\* C26: without a file path input_data_to_string always returns after its
\* bounded wait, whether or not the reader of standard input has finished:
\* the complete input if the reader delivered it before the poll and the
\* empty string otherwise, never a part of the input, and a delivery after
\* the poll is discarded without blocking or crashing either thread.
C26_ReturnsWholeOrNothing ==
    /\ [](StdinResult /\ StdinNeverBlocks /\ StdinLateDeliveryDiscarded)
    /\ <>(pc = "done")

\* the reader delivered two chunks before the poll, and they are returned
C26_DeliveredInTime ==
    /\ pc = "done"
    /\ call.polled = "after send"
    /\ Len(call.stdin.chunks) = MaxChunks
    /\ call.stdin.ending = "eof"
    /\ ret = Ok(Complete(call.stdin))
    /\ ret.val # << >>

\* the reader had read one of two chunks at the poll and sends both after
\* the return: the empty string was returned, the send fails, the reader ends
C26_LateDelivery ==
    /\ pc = "done"
    /\ call.polled = "before send"
    /\ Len(call.stdin.chunks) = MaxChunks
    /\ thread.pc = "exit"
    /\ thread.input_string = Complete(call.stdin)
    /\ thread.stderr = <<"ERROR: sending on a closed channel">>
    /\ ret = Ok(<< >>)

\* ------------------------------------------ specification: interactive mode
\* app holds the fields of RamanGuiApp. Beside them it keeps what the
\* properties are stated with: ids names each transformer of the pipeline
\* (a transformer keeps its id while it is in the pipeline), chosen is the id
\* of the transformer selected or inserted last, clicks counts the clicks,
\* seen the kinds of event that have taken place, and computed tells whether
\* the last run_pipeline_on_change ran its loop.

MaxClicks == 3

\* sha256::digest, taken to be free of collisions: the digest of a text is a
\* text that names it
digest(input) == <<"sha256(">> \o input \o <<")">>

\* Transformer::apply from self.write_metadata_yaml(dataset)? on
apply_metadata(trnsf, t) ==
    IF t.r.kind = "Ok" THEN Left(t.r, write_metadata_yaml(trnsf, t.ds)) ELSE t

\* Transformer::apply
apply(trnsf, ds, files) == apply_metadata(trnsf, transform(trnsf, ds, files))

\* TransformerGUI::should_plot_dataset_state_after_transformation
should_plot_dataset_state_after_transformation(trnsf) ==
    trnsf.name \notin {"BaselineTransform", "IntegrateTransform", "MaskTransform",
                       "SelectTransform"}

\* TransformerGUI::get_plot_extension
get_plot_extension(trnsf, ds) ==
    CASE trnsf.name = "BaselineTransform" ->
             Some([gui |-> "SplineExtensionGUI", points |-> Param(trnsf, "points:")])
      [] trnsf.name = "IntegrateTransform" ->
             Some([gui |-> "IntegrateExtensionGUI", dataset |-> ds,
                   bounds |-> Param(trnsf, "bounds:")])
      [] trnsf.name = "MaskTransform" ->
             Some([gui |-> "MaskExtensionGUI", dataset |-> ds,
                   mask |-> Param(trnsf, "mask:")])
      [] trnsf.name = "NormalizeTransform" ->
             Some([gui |-> "NormalizeExtensionGUI", xi |-> Param(trnsf, "xi:"),
                   xj |-> Param(trnsf, "xj:")])
      [] OTHER -> None

\* a transformer with the value of one field replaced
WithParam(trnsf, key, val) ==
    [trnsf EXCEPT !.fields = [i \in 1..Len(@) |->
                                 IF @[i].key = key THEN [key |-> key, val |-> val]
                                 ELSE @[i]]]

\* TransformerGUI::update_from_plot_extension with the result of an
\* extension nobody has drawn in: what the extension was made of
update_from_plot_extension(trnsf, ext) ==
    CASE trnsf.name = "BaselineTransform" ->
             IF ext.gui = "SplineExtensionGUI"
             THEN Ok(WithParam(trnsf, "points:", ext.points))
             ELSE Panic("Baseline transformer got wrong plot extension result")
      [] trnsf.name = "IntegrateTransform" ->
             IF ext.gui = "IntegrateExtensionGUI"
             THEN Ok(WithParam(trnsf, "bounds:", ext.bounds))
             ELSE Panic("Integrate transformer got wrong plot extension result")
      [] trnsf.name = "MaskTransform" ->
             IF ext.gui = "MaskExtensionGUI"
             THEN Ok(WithParam(trnsf, "mask:", ext.mask))
             ELSE Panic("Baseline transformer got wrong plot extension result")
      [] trnsf.name = "NormalizeTransform" ->
             IF ext.gui = "NormalizeExtensionGUI"
             THEN Ok(WithParam(WithParam(trnsf, "xi:", ext.xi), "xj:", ext.xj))
             ELSE Ok(trnsf)
      [] OTHER -> Ok(trnsf)

\* the text input_data_to_string reads that the headers are parsed from
input_string(files, filepath) == files[filepath].comments

\* .find(|segment| segment.contains("preprocessor: arguments")) over the
\* trimmed segments without their comment prefixes
preprocessor_segments(yaml_header) ==
    SelectSeq([i \in 1..Len(Split(yaml_header, DELIMITER)) |->
                  Trim(Replace(Split(yaml_header, DELIMITER)[i], COMMENT_PREFIX, << >>))],
              LAMBDA segment : Contains(segment, <<"preprocessor:", " ", "arguments">>))

\* Preprocessor::from_yaml_header: the Cli of the first such segment
preprocessor_from_yaml_header(yaml_header) ==
    IF preprocessor_segments(yaml_header) = << >>
    THEN Err("Unable to parse preprocessor from YAML header")
    ELSE from_str("Cli", preprocessor_segments(yaml_header)[1])

\* prp.args.filepath.unwrap_or(PathBuf::default())
filepath_or_default(args) == IF args[1].val = Null THEN << >> ELSE args[1].val.v

\* how far run_pipeline_on_change has come: the app as it is, the error the
\* ? operator returns if there is one, and whether the channel was polled
Going(a) == [app |-> a, r |-> Ok(Unit), polled |-> FALSE]

Ended(a, r) == [app |-> a, r |-> r, polled |-> FALSE]

\* ids for the transformers of a pipeline that has been replaced
Replaced(a, transformations) ==
    [a EXCEPT !.pipeline = transformations,
              !.ids = [k \in 1..Len(transformations) |-> a.next_id + k - 1],
              !.next_id = @ + Len(transformations)]

\* self.pipeline = Pipeline::from_yaml_header(&input_string)?; and the paths
reload_pipeline_from(a, args, parsed) ==
    IF parsed.kind # "Ok" THEN Ended([a EXCEPT !.seen = @ \cup {"parse error"}], parsed)
    ELSE Going([Replaced(a, parsed.val) EXCEPT !.input_file_path = filepath_or_default(args),
                                              !.seen = @ \cup {"reload"}])

\* self.initial_dataset = prp.get_input_data()?; self.dataset = ..clone();
reload_input(a, args, yaml_header, ds) ==
    IF ds.kind # "Ok" THEN Ended(a, ds)
    ELSE reload_pipeline_from([a EXCEPT !.initial_dataset = ds.val, !.dataset = ds.val],
                              args, from_yaml_header(yaml_header))

\* the first block of run_pipeline_on_change behind input_data_to_string
reload_previous_run(a, files, prp_result) ==
    IF prp_result.kind # "Ok" THEN Going(a)
    ELSE reload_input(a, prp_result.val.fields, input_string(files, a.input_file_path),
                      get_input_data(files, prp_result.val.fields))

\* if self.preprocessor.reload_pipeline { .. }
reload_on_start(a, files) ==
    IF ~a.preprocessor.reload_pipeline THEN Going(a)
    ELSE IF a.input_file_path \notin DOMAIN files
    THEN Ended([a EXCEPT !.preprocessor.reload_pipeline = FALSE],
                  Err("No such file or directory"))
    ELSE reload_previous_run([a EXCEPT !.preprocessor.reload_pipeline = FALSE], files,
                             preprocessor_from_yaml_header(input_string(files, a.input_file_path)))

\* self.force_update = true; self.dataset_cache = HashMap::new();
loaded(g) ==
    IF g.r.kind # "Ok" THEN [g EXCEPT !.polled = TRUE]
    ELSE [g EXCEPT !.polled = TRUE, !.app.force_update = TRUE, !.app.dataset_cache = << >>]

\* let ds = self.preprocessor.get_input_data()?; self.initial_dataset = ds; ..
load_input(a, ds) ==
    IF ds.kind # "Ok" THEN Ended(a, ds)
    ELSE Going([a EXCEPT !.initial_dataset = ds.val, !.dataset = ds.val,
                         !.seen = @ \cup {"load"}])

\* if prp_result.is_ok() && self.reload_pipeline { .. } else { .. }
load_previous_run(a, files, prp_result) ==
    IF prp_result.kind = "Ok" /\ a.reload_pipeline
    THEN reload_input(a, prp_result.val.fields, input_string(files, a.input_file_path),
                      get_input_data(files, prp_result.val.fields))
    ELSE load_input(a, get_input_data(files, a.preprocessor.args))

\* the body of if let Ok(filepath) = self.filepath_to_load.try_recv() { .. }
load_file(a, files) ==
    IF a.input_file_path \notin DOMAIN files
    THEN Ended(a, Err("No such file or directory"))
    ELSE load_previous_run(a, files,
                           preprocessor_from_yaml_header(input_string(files, a.input_file_path)))

\* if let Ok(filepath) = self.filepath_to_load.try_recv() { .. }
load_on_request(g, files, filepath_to_load) ==
    IF g.r.kind # "Ok" THEN g
    ELSE IF filepath_to_load = << >> THEN [g EXCEPT !.polled = TRUE]
    ELSE loaded(load_file([g.app EXCEPT !.input_file_path = Head(filepath_to_load),
                                        !.preprocessor.args = Cli(Head(filepath_to_load))],
                          files))

\* digest(conf_str), conf_str the configurations of the pipeline in a row
pipeline_hash(transformations) ==
    digest(Concat([i \in 1..Len(transformations) |-> config_to_string(transformations[i])]))

\* self.active_step.map(|n| n == i).unwrap_or_default()
is_last_iter(active_step, i) == active_step.some /\ active_step.idx = i

RECURSIVE replay(_, _, _, _, _, _)

\* the end of one iteration of the loop of run_pipeline_on_change
replay_next(transformations, active_step, files, i, hash, s) ==
    IF is_last_iter(active_step, i) THEN s
    ELSE replay(transformations, active_step, files, i + 1, hash, s)

\* trnsf.apply(&mut self.dataset) has returned t
replay_applied(transformations, active_step, files, i, hash, s, t) ==
    IF t.r.kind = "Panic" THEN [s EXCEPT !.dataset = t.ds, !.r = t.r]
    ELSE IF t.r.kind = "Err" THEN [s EXCEPT !.dataset = t.ds]
    ELSE replay_next(transformations, active_step, files, i, hash,
                     [s EXCEPT !.dataset = t.ds,
                               !.dataset_cache = (hash :> t.ds) @@ @])

\* if let Some(cache) = self.dataset_cache.get(&hash) { .. } else { .. }
replay_hashed(transformations, active_step, files, i, hash, s) ==
    IF hash \in DOMAIN s.dataset_cache
    THEN replay_next(transformations, active_step, files, i, hash,
                     [s EXCEPT !.dataset = s.dataset_cache[hash]])
    ELSE replay_applied(transformations, active_step, files, i, hash, s,
                        apply(transformations[i + 1], s.dataset, files))

\* the loop of run_pipeline_on_change from iteration i on; s holds the
\* dataset, the cache, and the panic of a transformer if there is one
replay(transformations, active_step, files, i, last_transformer_hash, s) ==
    IF i >= Len(transformations) THEN s
    ELSE IF /\ is_last_iter(active_step, i)
            /\ ~should_plot_dataset_state_after_transformation(transformations[i + 1])
    THEN s
    ELSE replay_hashed(transformations, active_step, files, i,
                       digest(config_to_string(transformations[i + 1])
                                  \o last_transformer_hash),
                       s)

\* what the loop starts from
Replaying(initial_dataset, dataset_cache) ==
    [dataset |-> initial_dataset, dataset_cache |-> dataset_cache, r |-> Ok(Unit)]

\* the plot extension of the active step, if it is a step of the pipeline
active_plot_extension(a) ==
    IF a.active_step.some /\ a.active_step.idx < Len(a.pipeline)
    THEN get_plot_extension(a.pipeline[a.active_step.idx + 1], a.dataset)
    ELSE None

\* the app after the loop
replayed(a, s) ==
    Ended([a EXCEPT !.dataset = s.dataset,
                       !.dataset_cache = s.dataset_cache,
                       !.plot_extension = active_plot_extension([a EXCEPT !.dataset = s.dataset]),
                       !.computed = TRUE],
             s.r)

\* run_pipeline_on_change from the hash of the pipeline on
rerun_on_change(g, files) ==
    IF g.r.kind # "Ok" THEN g
    ELSE IF g.app.last_dataset_hash = pipeline_hash(g.app.pipeline) /\ ~g.app.force_update
    THEN g
    ELSE [replayed([g.app EXCEPT !.last_dataset_hash = pipeline_hash(g.app.pipeline),
                                 !.force_update = FALSE],
                   replay(g.app.pipeline, g.app.active_step, files, 0, << >>,
                          Replaying(g.app.initial_dataset, g.app.dataset_cache)))
          EXCEPT !.polled = g.polled]

\* RamanGuiApp::run_pipeline_on_change
run_pipeline_on_change(a, files, filepath_to_load) ==
    rerun_on_change(load_on_request(reload_on_start([a EXCEPT !.computed = FALSE], files),
                                    files, filepath_to_load),
                    files)

\* a file of one row and one frame, x = 0
GuiRaw(y) == File(<< >>, Array2(1, 2, LAMBDA i, j : F(j * y)))

GoodPath == <<"good.csv">>

BadPath == <<"bad.csv">>

DashPath == <<"a", "-", "-", "-", "b.csv">>

RawFiles == (InPath :> GuiRaw(1)) @@ (AppendPath :> GuiRaw(2)) @@ (DashPath :> GuiRaw(3))

\* the output file of a run of one transformer on b.csv
PreviousRun(trnsf) ==
    write(apply(trnsf, get_input_data(RawFiles, Cli(AppendPath)).val, RawFiles).ds)

\* the input files, the output of a run of Offset, whose header is read back
\* as a pipeline, and the output of a run that appended a---b.csv, whose
\* header is not
GuiFiles ==
    RawFiles
        @@ (GoodPath :> PreviousRun(OffsetTransform(F(1), FALSE, Null)))
        @@ (BadPath :> PreviousRun(AppendTransform(DashPath, FALSE)))

\* the files the user picks in the dialog
PickPaths == {AppendPath, GoodPath, BadPath}

\* the command lines the program is started with: the input file, the word
\* reload, and the subcommands as the pipeline they are parsed to
GuiLines ==
    {[fn |-> "gui_loop", filepath |-> InPath, reload |-> FALSE, pipeline |-> << >>],
     [fn |-> "gui_loop", filepath |-> InPath, reload |-> FALSE,
      pipeline |-> <<OffsetTransform(F(1), FALSE, Null), IntegrateBounds(<< >>, TRUE)>>],
     [fn |-> "gui_loop", filepath |-> GoodPath, reload |-> TRUE, pipeline |-> << >>]}

\* the entries of the combo box the model chooses from
InsertTransformers == {"None", "Average", "Integrate"}

\* RamanGuiApp::insert_transformation: the transformer of the entry
inserted_transformer(insert_transformer) ==
    CASE insert_transformer = "Average" -> Transformer("AverageTransform", << >>)
      [] insert_transformer = "Integrate" -> IntegrateBounds(<< >>, TRUE)

\* RamanGuiApp { pipeline, dataset, initial_dataset, ..RamanGuiApp::new(preprocessor) }
RamanGuiApp(line, ds) ==
    [active_step |-> None,
     add_step |-> None,
     dataset_cache |-> << >>,
     dataset |-> ds,
     force_update |-> TRUE,
     initial_dataset |-> ds,
     input_file_path |-> line.filepath,
     insert_transformer |-> "None",
     last_dataset_hash |-> << >>,
     pipeline |-> line.pipeline,
     plot_extension |-> Some([gui |-> "SplineExtensionGUI", points |-> List(<< >>)]),
     preprocessor |-> [args |-> Cli(line.filepath), reload_pipeline |-> line.reload],
     reload_pipeline |-> TRUE,
     remove_step |-> None,
     ids |-> [k \in 1..Len(line.pipeline) |-> k],
     next_id |-> Len(line.pipeline) + 1,
     chosen |-> 0,
     clicks |-> 0,
     seen |-> {},
     computed |-> FALSE]

\* gui_loop up to eframe::run_native
InitGui ==
    /\ pc = "update"
    /\ build \in {"debug", "release"}
    /\ call \in GuiLines
    /\ fs = GuiFiles
    /\ app = RamanGuiApp(call, get_input_data(fs, Cli(call.filepath)).val)
    /\ chan = [request_file_load |-> << >>, filepath_to_load |-> << >>]
    /\ thread = [pc |-> "recv"]
    /\ ret = NoRet
    /\ dataset = NoDataset
    /\ pipeline = << >>
    /\ step = 0

\* App::update, first statement: self.run_pipeline_on_change(); g is what it
\* returns
Updated(g) ==
    /\ app' = g.app
    /\ ret' = g.r
    /\ chan' = [chan EXCEPT !.filepath_to_load =
                                IF g.polled /\ @ # << >> THEN Tail(@) ELSE @]
    /\ pc' = IF g.r.kind = "Panic" THEN "panicked" ELSE "panel"

RunPipelineOnChange ==
    /\ pc = "update"
    /\ Updated(run_pipeline_on_change(app, fs, chan.filepath_to_load))
    /\ UNCHANGED <<thread, build, call, dataset, pipeline, step, fs>>

\* the rest of App::update after a click that left the app as a
Clicked(a) ==
    /\ app' = [a EXCEPT !.clicks = @ + 1]
    /\ pc' = "update"
    /\ UNCHANGED <<chan, thread, build, call, ret, dataset, pipeline, step, fs>>

\* a frame in which nothing is clicked
Repaint ==
    /\ pc = "panel"
    /\ pc' = "update"
    /\ UNCHANGED <<gui, build, call, ret, dataset, pipeline, step, fs>>

\* the button that loads the default pipeline
LoadDefault ==
    /\ pc = "panel"
    /\ app.clicks < MaxClicks
    /\ Clicked([Replaced(app, default_transformations) EXCEPT !.seen = @ \cup {"default"}])

\* a button "+": before step i, or behind the last step
Plus ==
    /\ pc = "panel"
    /\ app.clicks < MaxClicks
    /\ \E i \in 0..Len(app.pipeline) : Clicked([app EXCEPT !.add_step = Some(i)])

\* the form of add_transformation_form is shown
AddFormShown == app.add_step.some /\ app.add_step.idx <= Len(app.pipeline)

\* an entry of the combo box of add_transformation_form
ChooseInsert ==
    /\ pc = "panel"
    /\ app.clicks < MaxClicks
    /\ AddFormShown
    /\ \E t \in InsertTransformers : Clicked([app EXCEPT !.insert_transformer = t])

\* the button Cancel of add_transformation_form
InsertCancel ==
    /\ pc = "panel"
    /\ app.clicks < MaxClicks
    /\ AddFormShown
    /\ Clicked([app EXCEPT !.add_step = None, !.insert_transformer = "None"])

InsertAt(s, i, e) == SubSeq(s, 1, i) \o <<e>> \o SubSeq(s, i + 1, Len(s))

RemoveAt(s, i) == SubSeq(s, 1, i) \o SubSeq(s, i + 2, Len(s))

\* self.insert_transformation(i) and what follows it if a transformer was
\* inserted
inserted(a, i, trnsf) ==
    [a EXCEPT !.pipeline = InsertAt(@, i, trnsf),
              !.ids = InsertAt(@, i, a.next_id),
              !.next_id = @ + 1,
              !.chosen = a.next_id,
              !.plot_extension = get_plot_extension(trnsf, a.dataset),
              !.active_step = Some(i),
              !.seen = @ \cup {"insert"}]

\* the button OK of add_transformation_form
InsertOk ==
    /\ pc = "panel"
    /\ app.clicks < MaxClicks
    /\ AddFormShown
    /\ Clicked([(IF app.insert_transformer = "None" THEN app
                 ELSE inserted(app, app.add_step.idx,
                               inserted_transformer(app.insert_transformer)))
                EXCEPT !.insert_transformer = "None", !.add_step = None])

\* the button Remove of transformer_form, and the removal at the end of
\* left_panel
Remove ==
    /\ pc = "panel"
    /\ app.clicks < MaxClicks
    /\ \E i \in 0..Len(app.pipeline) - 1 :
           Clicked([app EXCEPT !.force_update = TRUE,
                               !.pipeline = RemoveAt(@, i),
                               !.ids = RemoveAt(@, i),
                               !.remove_step = None,
                               !.seen = @ \cup {"remove"}])

\* the OK button is shown in the form of the active step
OkShown == app.active_step.some /\ app.active_step.idx < Len(app.pipeline)

\* trnsf.update_from_plot_extension(extension_result), if there is an
\* extension
confirmed(a, trnsf) ==
    IF a.plot_extension.some THEN update_from_plot_extension(trnsf, a.plot_extension.idx)
    ELSE Ok(trnsf)

\* the button OK of transformer_form
Confirm ==
    /\ pc = "panel"
    /\ app.clicks < MaxClicks
    /\ OkShown
    /\ IF confirmed(app, app.pipeline[app.active_step.idx + 1]).kind = "Panic"
       THEN /\ pc' = "panicked"
            /\ ret' = confirmed(app, app.pipeline[app.active_step.idx + 1])
            /\ app' = [app EXCEPT !.active_step = None, !.force_update = TRUE,
                                  !.clicks = @ + 1]
            /\ UNCHANGED <<chan, thread, build, call, dataset, pipeline, step, fs>>
       ELSE Clicked([app EXCEPT
                        !.pipeline[app.active_step.idx + 1] =
                            confirmed(app, app.pipeline[app.active_step.idx + 1]).val,
                        !.active_step = None,
                        !.force_update = TRUE,
                        !.plot_extension = None,
                        !.chosen = 0])

\* the button Select of transformer_form
Select ==
    /\ pc = "panel"
    /\ app.clicks < MaxClicks
    /\ \E i \in 0..Len(app.pipeline) - 1 :
           /\ app.active_step # Some(i)
           /\ Clicked([app EXCEPT !.active_step = Some(i),
                                  !.force_update = TRUE,
                                  !.chosen = app.ids[i + 1],
                                  !.seen = @ \cup {"select"}])

\* the key of the checkbox render_form shows for the transformer
checkbox(trnsf) ==
    CASE trnsf.name = "OffsetTransform" -> "percentile:"
      [] trnsf.name = "IntegrateTransform" -> "local_baseline:"
      [] trnsf.name = "SelectTransform" -> "invert:"
      [] trnsf.name = "BaselineTransform" -> "store:"
      [] OTHER -> ""

\* a click on the checkbox of the form of step i
EditCheckbox ==
    /\ pc = "panel"
    /\ app.clicks < MaxClicks
    /\ \E i \in 1..Len(app.pipeline) :
           /\ checkbox(app.pipeline[i]) # ""
           /\ Clicked([app EXCEPT
                          !.pipeline[i] =
                              WithParam(@, checkbox(@), B(~Param(@, checkbox(@)).v[1])),
                          !.seen = @ \cup {"edit"}])

\* the checkbox "reload pipeline?"
ToggleReload ==
    /\ pc = "panel"
    /\ app.clicks < MaxClicks
    /\ Clicked([app EXCEPT !.reload_pipeline = ~@])

\* the button "...": self.request_file_load.send(Some(..))
ClickLoad ==
    /\ pc = "panel"
    /\ app.clicks < MaxClicks
    /\ app' = [app EXCEPT !.clicks = @ + 1]
    /\ chan' = [chan EXCEPT !.request_file_load = Append(@, app.input_file_path)]
    /\ pc' = "update"
    /\ UNCHANGED <<thread, build, call, ret, dataset, pipeline, step, fs>>

\* the file loader thread: rx_input_path.recv() returns a request
LoaderRecv ==
    /\ thread.pc = "recv"
    /\ chan.request_file_load # << >>
    /\ chan' = [chan EXCEPT !.request_file_load = Tail(@)]
    /\ thread' = [thread EXCEPT !.pc = "pick_file"]
    /\ UNCHANGED <<app, pc, build, call, ret, dataset, pipeline, step, fs>>

\* the user picks a file in the dialog: the path is sent, and the requests
\* that have come in since are drained
LoaderPick ==
    /\ thread.pc = "pick_file"
    /\ \E filepath \in PickPaths :
           chan' = [request_file_load |-> << >>,
                    filepath_to_load |-> Append(chan.filepath_to_load, filepath)]
    /\ thread' = [thread EXCEPT !.pc = "recv"]
    /\ UNCHANGED <<app, pc, build, call, ret, dataset, pipeline, step, fs>>

\* the user closes the dialog
LoaderCancel ==
    /\ thread.pc = "pick_file"
    /\ chan' = [chan EXCEPT !.request_file_load = << >>]
    /\ thread' = [thread EXCEPT !.pc = "recv"]
    /\ UNCHANGED <<app, pc, build, call, ret, dataset, pipeline, step, fs>>

NextGui ==
    \/ RunPipelineOnChange
    \/ Repaint
    \/ LoadDefault
    \/ Plus
    \/ ChooseInsert
    \/ InsertCancel
    \/ InsertOk
    \/ Remove
    \/ Confirm
    \/ Select
    \/ EditCheckbox
    \/ ToggleReload
    \/ ClickLoad
    \/ LoaderRecv
    \/ LoaderPick
    \/ LoaderCancel

SpecGui == InitGui /\ [][NextGui]_vars

\* the dataset the steps of the pipeline give on the input dataset when
\* nothing is cached
Uncached(a, files) ==
    replay(a.pipeline, a.active_step, files, 0, << >>,
           Replaying(a.initial_dataset, << >>)).dataset

GuiTypeOK ==
    /\ pc \in {"update", "panel", "panicked"}
    /\ app.clicks \in 0..MaxClicks
    /\ Len(app.ids) = Len(app.pipeline)

\* C25: in interactive mode, after any sequence of parameter edits, step
\* insertions and removals, step selections and file loads (loads whose
\* header does not parse as a pipeline included), the dataset
\* run_pipeline_on_change has computed is the dataset the same steps give on
\* the current input dataset with an empty cache: no cache hit returns a
\* dataset computed from another input dataset or from other upstream
\* configurations.
C25_CachedEqualsUncached ==
    (/\ pc = "panel"
     /\ app.computed)
    => app.dataset = Uncached(app, fs)

\* the input dataset is that of b.csv and the dataset shown was computed from
\* in.csv
C25_StaleCacheHit ==
    /\ pc = "panel"
    /\ app.computed
    /\ app.initial_dataset.data = GuiRaw(2).data
    /\ app.dataset.data = Array2(1, 2, LAMBDA i, j : F(2 * j))
    /\ Uncached(app, fs).data = Array2(1, 2, LAMBDA i, j : F(3 * j))

\* the same holds as long as no file was loaded whose header does not parse
\* as a pipeline
C25_EqualsUncachedWithoutParseError ==
    (/\ pc = "panel"
     /\ app.computed
     /\ "parse error" \notin app.seen)
    => app.dataset = Uncached(app, fs)

\* C29: in interactive mode, after any sequence of select, confirm, insert,
\* remove and load-default actions, active_step is absent or an index smaller
\* than the length of the pipeline that designates the transformer the user
\* selected or inserted last, and the plot extension in use was produced by
\* that transformer.
C29_ActiveStepDesignatesChosen ==
    (/\ pc = "panel"
     /\ app.seen \cap {"load", "reload", "parse error"} = {}
     /\ app.active_step.some)
    => /\ app.active_step.idx < Len(app.pipeline)
       /\ app.ids[app.active_step.idx + 1] = app.chosen
       /\ app.plot_extension
              = get_plot_extension(app.pipeline[app.active_step.idx + 1], app.dataset)

\* step 1 of two was selected and step 0 removed: active_step is the length
\* of the pipeline
C29_ActiveStepOutOfRange ==
    /\ pc = "panel"
    /\ app.seen = {"select", "remove"}
    /\ app.active_step = Some(1)
    /\ Len(app.pipeline) = 1

\* step 0 was selected and removed: active_step designates the transformer
\* that was step 1
C29_ActiveStepOnAnother ==
    /\ pc = "panel"
    /\ app.seen = {"select", "remove"}
    /\ app.active_step = Some(0)
    /\ Len(app.pipeline) = 1
    /\ app.ids[1] # app.chosen

\* the same holds as long as no step was removed and the default pipeline
\* was not loaded
C29_DesignatesChosenWithoutRemoval ==
    (/\ pc = "panel"
     /\ app.seen \cap {"load", "reload", "parse error", "remove", "default"} = {}
     /\ app.active_step.some)
    => /\ app.active_step.idx < Len(app.pipeline)
       /\ app.ids[app.active_step.idx + 1] = app.chosen
       /\ app.plot_extension
              = get_plot_extension(app.pipeline[app.active_step.idx + 1], app.dataset)

====
